---- MODULE Spec2Model ----
(***************************************************************************)
(* Crawl orchestration of decision_scraper: the wave-by-wave frontier      *)
(* scheduler of scrape_decision_makers, the per-site loop of               *)
(* scrape_multiple, URL normalisation and deduplication, link filtering,   *)
(* the resource monitor and the entity dedup pass.                         *)
(*                                                                         *)
(* Python strings are sequences of one-character strings, so that          *)
(* lower(), rstrip(), `in` and string comparison are computed.             *)
(***************************************************************************)
EXTENDS Integers, Sequences, FiniteSets, Bags, TLC

-----------------------------------------------------------------------------
(* str primitives                                                          *)

UpperChars == <<"A","B","C","D","E","F","G","H","I","J","K","L","M",
                "N","O","P","Q","R","S","T","U","V","W","X","Y","Z">>

LowerChars == <<"a","b","c","d","e","f","g","h","i","j","k","l","m",
                "n","o","p","q","r","s","t","u","v","w","x","y","z">>

\* the characters of the model in code-point order
CodePoints == <<" ","#",",","-",".","/","0","1","2","3","4","5","6","7","8","9",":","?">>
              \o UpperChars \o <<"[","]">> \o LowerChars

IndexIn(c, s) == IF \E i \in 1..Len(s) : s[i] = c
                 THEN CHOOSE i \in 1..Len(s) : s[i] = c /\ \A j \in 1..(i-1) : s[j] # c
                 ELSE 0

Ord(c) == IndexIn(c, CodePoints)

LowerChar(c) == IF IndexIn(c, UpperChars) > 0 THEN LowerChars[IndexIn(c, UpperChars)] ELSE c

\* str.lower()
StrLower(s) == [i \in 1..Len(s) |-> LowerChar(s[i])]

\* s[from:] with a 1-based first index
Tail_(s, from) == SubSeq(s, from, Len(s))

\* sub in s
StrIn(sub, s) == \E i \in 0..(Len(s) - Len(sub)) : SubSeq(s, i + 1, i + Len(sub)) = sub

\* s.find(c), 1-based; 0 when c does not occur
Find(s, c) == IndexIn(c, s)

\* index of the first character of s at or after from that is in chars, else Len(s)+1
FindAny(s, chars, from) ==
    IF \E i \in from..Len(s) : s[i] \in chars
    THEN CHOOSE i \in from..Len(s) : s[i] \in chars /\ \A j \in from..(i-1) : s[j] \notin chars
    ELSE Len(s) + 1

\* s.rstrip("/")
RECURSIVE RStripSlash(_)
RStripSlash(s) == IF s # <<>> /\ s[Len(s)] = "/" THEN RStripSlash(SubSeq(s, 1, Len(s) - 1)) ELSE s

\* a < b for Python strings
RECURSIVE StrLess(_, _)
StrLess(a, b) ==
    IF b = <<>> THEN FALSE
    ELSE IF a = <<>> THEN TRUE
    ELSE IF a[1] # b[1] THEN Ord(a[1]) < Ord(b[1])
    ELSE StrLess(Tail(a), Tail(b))

-----------------------------------------------------------------------------
(* urllib.parse as used by dedup.py and link_discovery.py.  The model's    *)
(* URLs carry no ";" (params) and no "." or ".." path segment.             *)

SchemeChars == {LowerChars[i] : i \in 1..Len(LowerChars)} \cup {UpperChars[i] : i \in 1..Len(UpperChars)}
               \cup {"0","1","2","3","4","5","6","7","8","9","-","."}

AlphaChars == {LowerChars[i] : i \in 1..Len(LowerChars)} \cup {UpperChars[i] : i \in 1..Len(UpperChars)}

\* the schemes of urllib.parse.uses_netloc and uses_relative that the model uses
UsesNetloc == {<<>>, <<"h","t","t","p">>, <<"h","t","t","p","s">>}

\* urlsplit: the query is split off what precedes the fragment
ParseQuery(scheme, netloc, rest, fragment, q) ==
    [scheme |-> scheme, netloc |-> netloc,
     path |-> IF q > 0 THEN SubSeq(rest, 1, q - 1) ELSE rest,
     query |-> IF q > 0 THEN Tail_(rest, q + 1) ELSE <<>>,
     fragment |-> fragment]

\* urlsplit: the fragment is split off at the first "#"
ParseFragment(scheme, netloc, rest, h) ==
    IF h > 0
    THEN ParseQuery(scheme, netloc, SubSeq(rest, 1, h - 1), Tail_(rest, h + 1),
                    Find(SubSeq(rest, 1, h - 1), "?"))
    ELSE ParseQuery(scheme, netloc, rest, <<>>, Find(rest, "?"))

\* urlsplit and _splitnetloc: after "//" the netloc runs to the first of "/", "?", "#"
ParseNetloc(scheme, rest, delim) ==
    IF Len(rest) >= 2 /\ rest[1] = "/" /\ rest[2] = "/"
    THEN ParseFragment(scheme, SubSeq(rest, 3, delim - 1), Tail_(rest, delim),
                       Find(Tail_(rest, delim), "#"))
    ELSE ParseFragment(scheme, <<>>, rest, Find(rest, "#"))

\* urlsplit: a scheme is split off when the text before the first ":" is a scheme name
ParseScheme(url, i) ==
    IF i > 1 /\ url[1] \in AlphaChars /\ \A k \in 1..(i-1) : url[k] \in SchemeChars
    THEN ParseNetloc(StrLower(SubSeq(url, 1, i - 1)), Tail_(url, i + 1),
                     FindAny(Tail_(url, i + 1), {"/", "?", "#"}, 3))
    ELSE ParseNetloc(<<>>, url, FindAny(url, {"/", "?", "#"}, 3))

urlparse(url) == ParseScheme(url, Find(url, ":"))

\* urlsplit raises ValueError("Invalid IPv6 URL") on this netloc
NetlocRaises(netloc) ==
    (StrIn(<<"[">>, netloc) /\ ~StrIn(<<"]">>, netloc))
    \/ (StrIn(<<"]">>, netloc) /\ ~StrIn(<<"[">>, netloc))

urlparse_raises(url) == NetlocRaises(urlparse(url).netloc)

\* urlunsplit: the part after the scheme
UnparseNetloc(scheme, netloc, path) ==
    IF netloc # <<>>
       \/ (scheme # <<>> /\ scheme \in UsesNetloc /\ SubSeq(path, 1, 2) # <<"/", "/">>)
    THEN <<"/", "/">> \o netloc
         \o (IF path # <<>> /\ path[1] # "/" THEN <<"/">> \o path ELSE path)
    ELSE path

urlunparse(scheme, netloc, path, query, fragment) ==
    (IF scheme # <<>> THEN scheme \o <<":">> ELSE <<>>)
    \o UnparseNetloc(scheme, netloc, path)
    \o (IF query # <<>> THEN <<"?">> \o query ELSE <<>>)
    \o (IF fragment # <<>> THEN <<"#">> \o fragment ELSE <<>>)

\* urljoin after both URLs are parsed; scheme is the scheme of url, defaulting to the base's
JoinParsed(url, b, p, scheme) ==
    IF scheme # b.scheme \/ scheme \notin UsesNetloc THEN url
    ELSE urlunparse(scheme,
                    IF p.netloc # <<>> THEN p.netloc ELSE b.netloc,
                    IF p.netloc = <<>> /\ p.path = <<>> THEN b.path ELSE p.path,
                    IF p.netloc = <<>> /\ p.path = <<>> /\ p.query = <<>> THEN b.query
                    ELSE p.query,
                    p.fragment)

SchemeOr(p, b) == IF p.scheme = <<>> THEN b.scheme ELSE p.scheme

\* urljoin(base, url) for an absolute url or a path that starts with "/"
urljoin(base, url) ==
    IF base = <<>> THEN url
    ELSE IF url = <<>> THEN base
    ELSE JoinParsed(url, urlparse(base), urlparse(url), SchemeOr(urlparse(url), urlparse(base)))

-----------------------------------------------------------------------------
(* dedup.py                                                                *)

\* path = parsed.path.rstrip("/") or "/"
NormalPath(stripped) == IF stripped = <<>> THEN <<"/">> ELSE stripped

NormalizeParsed(parsed) ==
    urlunparse(StrLower(parsed.scheme), StrLower(parsed.netloc),
               NormalPath(RStripSlash(parsed.path)), <<>>, <<>>)

normalize_url(url) == NormalizeParsed(urlparse(url))

-----------------------------------------------------------------------------
(* link_discovery.py                                                       *)

HIGH_PRIORITY_KEYWORDS ==
    << <<"a","b","o","u","t">>,
       <<"t","e","a","m">>,
       <<"l","e","a","d","e","r","s","h","i","p">>,
       <<"e","x","e","c","u","t","i","v","e">>,
       <<"m","a","n","a","g","e","m","e","n","t">>,
       <<"s","t","a","f","f">>,
       <<"p","e","o","p","l","e">>,
       <<"f","o","u","n","d","e","r","s">>,
       <<"d","i","r","e","c","t","o","r","s">>,
       <<"b","o","a","r","d">>,
       <<"o","u","r","-","t","e","a","m">>,
       <<"o","u","r","-","p","e","o","p","l","e">>,
       <<"w","h","o","-","w","e","-","a","r","e">>,
       <<"m","e","e","t","-","t","h","e","-","t","e","a","m">>,
       <<"m","e","e","t","-","u","s">>,
       <<"b","i","o","s">>,
       <<"p","r","i","n","c","i","p","a","l","s">>,
       <<"p","a","r","t","n","e","r","s">>,
       <<"d","o","c","t","o","r">>,
       <<"d","e","n","t","i","s","t">>,
       <<"p","r","o","v","i","d","e","r">>,
       <<"a","t","t","o","r","n","e","y">>,
       <<"o","u","r","-","d","o","c","t","o","r">>,
       <<"o","u","r","-","s","t","a","f","f">>,
       <<"o","u","r","-","p","r","o","v","i","d","e","r","s">>,
       <<"m","e","e","t","-","o","u","r">>,
       <<"a","b","o","u","t","-","u","s">>,
       <<"o","u","r","-","s","t","o","r","y">>,
       <<"o","u","r","-","c","o","m","p","a","n","y">>,
       <<"w","h","o","-","w","e","-","a","r","e">>,
       <<"w","h","y","-","u","s">>,
       <<"w","h","y","-","c","h","o","o","s","e">>,
       <<"c","r","e","d","e","n","t","i","a","l","s">>,
       <<"l","i","c","e","n","s","e">>,
       <<"o","w","n","e","r">>,
       <<"o","u","r","-","o","w","n","e","r">>,
       <<"m","e","e","t","-","t","h","e","-","o","w","n","e","r">> >>

MEDIUM_PRIORITY_KEYWORDS ==
    << <<"c","o","n","t","a","c","t">>,
       <<"c","o","n","t","a","c","t","-","u","s">>,
       <<"g","e","t","-","i","n","-","t","o","u","c","h">>,
       <<"r","e","a","c","h","-","u","s">>,
       <<"r","e","v","i","e","w","s">>,
       <<"t","e","s","t","i","m","o","n","i","a","l">>,
       <<"w","a","r","r","a","n","t","y">>,
       <<"g","u","a","r","a","n","t","e","e">> >>

SKIP_KEYWORDS ==
    << <<"b","l","o","g">>,
       <<"n","e","w","s">>,
       <<"p","r","e","s","s">>,
       <<"a","r","t","i","c","l","e">>,
       <<"p","o","s","t">>,
       <<"c","a","t","e","g","o","r","y">>,
       <<"t","a","g">>,
       <<"c","a","r","t">>,
       <<"s","h","o","p">>,
       <<"p","r","o","d","u","c","t">>,
       <<"p","r","i","c","i","n","g">>,
       <<"f","a","q">>,
       <<"p","r","i","v","a","c","y">>,
       <<"t","e","r","m","s">>,
       <<"c","o","o","k","i","e">>,
       <<"s","i","t","e","m","a","p">>,
       <<"f","e","e","d">>,
       <<"r","s","s">>,
       <<"l","o","g","i","n">>,
       <<"s","i","g","n","u","p">>,
       <<"r","e","g","i","s","t","e","r">>,
       <<"a","c","c","o","u","n","t">>,
       <<"c","h","e","c","k","o","u","t">>,
       <<"w","p","-","c","o","n","t","e","n","t">>,
       <<"w","p","-","a","d","m","i","n">>,
       <<"w","p","-","j","s","o","n">>,
       <<"c","d","n","-","c","g","i">>,
       <<".","p","d","f">>,
       <<".","j","p","g">>,
       <<".","p","n","g">>,
       <<".","g","i","f">>,
       <<".","s","v","g">>,
       <<".","c","s","s">>,
       <<".","j","s">>,
       <<".","z","i","p">>,
       <<".","x","m","l">>,
       <<".","i","c","o">>,
       <<".","w","o","f","f">>,
       <<".","t","t","f">> >>

\* any(kw in path for kw in kws)
AnyKeywordIn(kws, path) == \E k \in 1..Len(kws) : StrIn(kws[k], path)

ScorePath(path) ==
    IF AnyKeywordIn(SKIP_KEYWORDS, path) THEN -1
    ELSE IF AnyKeywordIn(HIGH_PRIORITY_KEYWORDS, path) THEN 2
    ELSE IF AnyKeywordIn(MEDIUM_PRIORITY_KEYWORDS, path) THEN 1
    ELSE 0

score_url(url) == ScorePath(StrLower(urlparse(url).path))

get_base_domain(url) == StrLower(urlparse(url).netloc)

\* a sort by ascending score
CandidateLess_Ascending(a, b) ==
    \/ a.score < b.score
    \/ a.score = b.score /\ StrLess(a.url, b.url)

\* the sort key (-score, url) of a candidate
CandidateLess(a, b) ==
    \/ a.score > b.score
    \/ a.score = b.score /\ StrLess(a.url, b.url)

\* list.sort(key=...): stable insertion of c into a sorted list
RECURSIVE InsertSorted(_, _)
InsertSorted(c, sorted) ==
    IF sorted = <<>> THEN <<c>>
    ELSE IF CandidateLess(c, Head(sorted)) THEN <<c>> \o sorted
    ELSE <<Head(sorted)>> \o InsertSorted(c, Tail(sorted))

RECURSIVE SortCandidates(_)
SortCandidates(cs) ==
    IF cs = <<>> THEN <<>>
    ELSE InsertSorted(cs[Len(cs)], SortCandidates(SubSeq(cs, 1, Len(cs) - 1)))

\* filter_internal_links without the test of line 102: every on-domain link is a candidate
Scored_KeepAll(absolute, score) == <<[score |-> score, url |-> absolute]>>

\* lines 101-103: the candidate of an on-domain link, when its score is not the skip tier
Scored(absolute, score) ==
    IF score >= 0 THEN <<[score |-> score, url |-> absolute]>> ELSE <<>>

\* lines 89-103: the candidates (none or one) that one link contributes
CandidateOf(href, absolute, base_domain) ==
    IF href = <<>> THEN <<>>
    ELSE IF ~StrIn(base_domain, StrLower(urlparse(absolute).netloc)) THEN <<>>
    ELSE Scored(absolute, score_url(absolute))

\* the loop of filter_internal_links over links
RECURSIVE Candidates(_, _, _)
Candidates(links, base_domain, base_url) ==
    IF links = <<>> THEN <<>>
    ELSE CandidateOf(Head(links), urljoin(base_url, Head(links)), base_domain)
         \o Candidates(Tail(links), base_domain, base_url)

\* urljoin or urlparse raises ValueError on some href of the list
filter_raises(links, base_url) ==
    \E i \in 1..Len(links) :
        links[i] # <<>> /\ (urlparse_raises(links[i]) \/ urlparse_raises(urljoin(base_url, links[i])))

UrlsOf(sorted) == [i \in 1..Len(sorted) |-> sorted[i].url]

\* filter_internal_links without the sort of lines 105-106: the candidates in link order
filter_internal_links_unsorted(links, base_domain, base_url) ==
    UrlsOf(Candidates(links, base_domain, base_url))

filter_internal_links(links, base_domain, base_url) ==
    UrlsOf(SortCandidates(Candidates(links, base_domain, base_url)))

-----------------------------------------------------------------------------
(* resources.py: memory in whole MB, percentages in whole percent          *)

DefaultMonitor == [max_memory_percent |-> 75, min_free_memory_mb |-> 512,
                   max_workers |-> 10, min_workers |-> 1]

\* min that returns its first argument
Min2_Left(a, b) == a

Min2(a, b) == IF a <= b THEN a ELSE b

Max2(a, b) == IF a >= b THEN a ELSE b

\* calculate_optimal_workers without the max(workers, self.min_workers) of line 54
calculate_workers_unclamped(self, mem, cpu_count) ==
    IF mem.percent >= self.max_memory_percent THEN self.min_workers
    ELSE IF mem.available_mb < self.min_free_memory_mb THEN self.min_workers
    ELSE Min2((mem.available_mb - self.min_free_memory_mb) \div 200,
              Min2((IF cpu_count = 0 THEN 2 ELSE cpu_count) * 2, self.max_workers))

\* mem = [percent, available_mb]; cpu_count = 0 stands for os.cpu_count() returning None
calculate_optimal_workers(self, mem, cpu_count) ==
    LET cpus == IF cpu_count = 0 THEN 2 ELSE cpu_count
        usable_mb == mem.available_mb - self.min_free_memory_mb
        memory_based == usable_mb \div 200
        cpu_based == cpus * 2
        workers == Min2(memory_based, Min2(cpu_based, self.max_workers))
    IN  IF mem.percent >= self.max_memory_percent THEN self.min_workers
        ELSE IF mem.available_mb < self.min_free_memory_mb THEN self.min_workers
        ELSE Max2(workers, self.min_workers)

-----------------------------------------------------------------------------
(* scraper.py: entity dedup                                                *)

Space == " "

\* str.strip()
RECURSIVE LStrip(_)
LStrip(s) == IF s # <<>> /\ s[1] = Space THEN LStrip(Tail(s)) ELSE s

RECURSIVE RStrip(_)
RStrip(s) == IF s # <<>> /\ s[Len(s)] = Space THEN RStrip(SubSeq(s, 1, Len(s) - 1)) ELSE s

Strip(s) == LStrip(RStrip(s))

StartsWith(s, p) == Len(s) >= Len(p) /\ SubSeq(s, 1, Len(p)) = p

\* the alternatives of _NAME_PREFIXES, each one followed by an optional "."
NamePrefixes == { <<"d","r">>, <<"m","r">>, <<"m","r","s">>, <<"m","s">>,
                  <<"p","r","o","f">>, <<"r","e","v">> }

\* the alternatives of the credential-suffix pattern; jr and sr carry their own optional "."
NameSuffixes == { <<"d","d","s">>, <<"d","m","d">>, <<"m","d">>, <<"d","o">>, <<"p","h","d">>,
                  <<"e","s","q">>, <<"j","r">>, <<"s","r">>, <<"j","r",".">>, <<"s","r",".">>,
                  <<"i","i">>, <<"i","i","i">>, <<"i","v">> }

\* _NAME_PREFIXES.sub("", n): ^(dr\.?|...)\s+ removed when it matches
StripNamePrefix(n) ==
    LET matches == { p \in NamePrefixes \cup { q \o <<".">> : q \in NamePrefixes } :
                        StartsWith(n, p \o <<Space>>) }
    IN  IF matches = {} THEN n
        ELSE LET p == CHOOSE q \in matches : TRUE
             IN  LStrip(Tail_(n, Len(p) + 1))

\* t matches ,?\s*(dds|...)\.?\s*$ in full
SuffixMatches(t) ==
    LET afterComma == IF t # <<>> /\ t[1] = "," THEN Tail(t) ELSE t
        body == RStrip(LStrip(afterComma))
    IN  \E sfx \in NameSuffixes : body = sfx \/ body = sfx \o <<".">>

\* re.sub(suffix pattern, "", n): the leftmost match runs to the end of the string
StripNameSuffix(n) ==
    IF \E i \in 1..Len(n) : SuffixMatches(Tail_(n, i))
    THEN LET i == CHOOSE k \in 1..Len(n) :
                     SuffixMatches(Tail_(n, k)) /\ \A j \in 1..(k-1) : ~SuffixMatches(Tail_(n, j))
         IN  SubSeq(n, 1, i - 1)
    ELSE n

\* " ".join(n.split())
RECURSIVE CollapseSpaces(_)
CollapseSpaces(s) ==
    LET t == LStrip(s)
    IN  IF t = <<>> THEN <<>>
        ELSE LET e == FindAny(t, {Space}, 1)
                 rest == CollapseSpaces(Tail_(t, e))
             IN  SubSeq(t, 1, e - 1) \o (IF rest = <<>> THEN <<>> ELSE <<Space>> \o rest)

_normalize_name(name) ==
    CollapseSpaces(StripNameSuffix(StripNamePrefix(StrLower(Strip(name)))))

\* _is_duplicate without the test of lines 41-42: a record with an empty normalized name is
\* compared like any other
_is_duplicate_keep_empty(dm, existing) ==
    \E k \in 1..Len(existing) :
        \/ _normalize_name(dm.name) = _normalize_name(existing[k].name)
        \/ /\ Len(_normalize_name(dm.name)) >= 3
           /\ Len(_normalize_name(existing[k].name)) >= 3
           /\ \/ StrIn(_normalize_name(dm.name), _normalize_name(existing[k].name))
              \/ StrIn(_normalize_name(existing[k].name), _normalize_name(dm.name))

\* _is_duplicate without the substring rule of lines 48-50
_is_duplicate_exact(dm, existing) ==
    \/ _normalize_name(dm.name) = <<>>
    \/ \E k \in 1..Len(existing) : _normalize_name(dm.name) = _normalize_name(existing[k].name)

_is_duplicate(dm, existing) ==
    LET norm == _normalize_name(dm.name)
    IN  \/ norm = <<>>
        \/ \E k \in 1..Len(existing) :
              LET other_norm == _normalize_name(existing[k].name)
              IN  \/ norm = other_norm
                  \/ /\ Len(norm) >= 3
                     /\ Len(other_norm) >= 3
                     /\ (StrIn(norm, other_norm) \/ StrIn(other_norm, norm))

\* the loop that builds unique_makers from all_decision_makers
RECURSIVE UniqueMakers(_, _)
UniqueMakers(all, unique) ==
    IF all = <<>> THEN unique
    ELSE UniqueMakers(Tail(all),
                      IF _is_duplicate(Head(all), unique) THEN unique
                      ELSE Append(unique, Head(all)))

-----------------------------------------------------------------------------
(* The sites: what the crawl collaborator can return                       *)

Str_example_root == <<"h","t","t","p","s",":","/","/","e","x","a","m","p","l","e",".","c","o","m","/">>

Str_b_root == <<"h","t","t","p","s",":","/","/","B",".","t","e","s","t">>

\* a root whose own path is in the skip tier and whose host is a substring of other.org
Str_her_blog_root == <<"h","t","t","p","s",":","/","/","h","e","r",".","o","r","g","/","b","l","o","g","/">>

Href_about_us == <<"/","a","b","o","u","t","-","u","s">>

Href_about_us_slash == <<"/","a","b","o","u","t","-","u","s","/">>

Href_blog_post == <<"/","b","l","o","g","/","p","o","s","t","-","1">>

Href_contact == <<"/","c","o","n","t","a","c","t">>

Href_root == <<"/">>

Href_other_team == <<"h","t","t","p","s",":","/","/","o","t","h","e","r",".","o","r","g","/","t","e","a","m">>

Href_bad_ipv6 == <<"h","t","t","p",":","/","/","[","b","a","d">>

Href_team == <<"/","t","e","a","m">>

\* the link lists passed to _expand_frontier when it is called on its own: hrefs in an order
\* that is not their rank order, two of one score, and two spellings of one page
FrontierBatches ==
    { <<Href_about_us, Href_blog_post, Href_contact>>,
      <<Href_contact, Href_blog_post, Href_team, Href_about_us>>,
      <<Href_team, Href_about_us_slash, Href_contact, Href_other_team>> }

\* the link lists (hrefs) a fetched page may carry
LinkBatches ==
    { <<>>,
      <<Href_about_us, Href_blog_post, Href_contact>>,
      <<Href_about_us_slash, Href_root, Href_other_team>>,
      <<Href_bad_ipv6>> }

Name_dr_jane_smith_md == <<"D","r","."," ","J","a","n","e"," ","S","m","i","t","h",","," ","M","D">>

Name_jane_smith == <<"J","a","n","e"," ","S","m","i","t","h">>

Name_john_doe == <<"J","o","h","n"," ","D","o","e">>

Title_owner == <<"O","w","n","e","r">>

Title_ceo == <<"C","E","O">>

\* Optional[T]: None is the empty set, a value x is {x}
None == {}

Some(x) == {x}

The(opt) == CHOOSE x \in opt : TRUE

\* models.DecisionMaker: name is a str, title an Optional[str]
DecisionMaker(name, title) == [name |-> name, title |-> title]

\* a record with a title
DM(name, title) == DecisionMaker(name, Some(title))

\* the validated record lists crawl_and_extract returns for the pages of the sites
MakerLists ==
    { <<DM(Name_dr_jane_smith_md, Title_owner)>>,
      <<DM(Name_jane_smith, Title_ceo), DM(Name_john_doe, Title_owner)>> }

Roots == {Str_example_root, Str_b_root, Str_her_blog_root}

\* the absolute URLs that occur in a run: the roots and what the hrefs resolve to
KnownUrls ==
    Roots \cup UNION { { urljoin(r, b[i]) : i \in 1..Len(b) } :
                           r \in Roots, b \in LinkBatches \cup FrontierBatches }

\* normalize_url, evaluated once for each URL of the model
NormalizedUrl == [u \in KnownUrls |-> normalize_url(u)]

\* score_url and the lowercased host, evaluated once for each URL of the model
UrlScore == [u \in KnownUrls |-> score_url(u)]

UrlHost == [u \in KnownUrls |-> get_base_domain(u)]

\* is_new without normalization: the URL string itself is looked up
is_new_raw(seen, link_url) == link_url \notin seen

\* URLDeduplicator.is_new that adds the URL as given to the seen-set
mark_seen_raw(seen_set, link_url) == seen_set \cup {link_url}

\* URLDeduplicator.is_new: its result, and the seen-set it leaves
is_new(seen, link_url) == NormalizedUrl[link_url] \notin seen

mark_seen(seen, link_url) == seen \cup {NormalizedUrl[link_url]}

\* line 106, evaluated once for each root and link list of the model:
\* filter_internal_links(internal_links, base_domain, url), or that it raises
Prioritized ==
    [r \in Roots |-> [b \in LinkBatches |->
        IF filter_raises(b, r) THEN [raises |-> TRUE, links |-> <<>>]
        ELSE [raises |-> FALSE,
              links |-> filter_internal_links(b, get_base_domain(r), r)]]]

\* str(e) of the exceptions of the model
Msg_browser == <<"b","r","o","w","s","e","r">>

Msg_invalid_ipv6 == <<"I","n","v","a","l","i","d"," ","I","P","v","6"," ","U","R","L">>

Msg_not_iterable == <<"n","o","t"," ","i","t","e","r","a","b","l","e">>

Msg_semaphore == <<"S","e","m","a","p","h","o","r","e">>

\* host samples of psutil.virtual_memory() and os.cpu_count()
HostSamples ==
    { [mem |-> [percent |-> 80, available_mb |-> 4000], cpu_count |-> 4],
      [mem |-> [percent |-> 40, available_mb |-> 1000], cpu_count |-> 0] }

\* CrawlManager._crawler is None
NoCrawler == "None"

-----------------------------------------------------------------------------
(* crawler.py: _parse_extraction.  A JSON document is a tagged record; the  *)
(* text json.loads rejects has the tag "invalid".                          *)

JInvalid == [type |-> "invalid"]

JNull == [type |-> "null"]

JNumber == [type |-> "number"]

JString(s) == [type |-> "string", chars |-> s]

JArray(items) == [type |-> "array", items |-> items]

\* fields is a record: the keys of the object and their values
JObject(fields) == [type |-> "object", fields |-> fields]

\* dict.get(key, default)
Get(obj, key, default) == IF key \in DOMAIN obj.fields THEN obj.fields[key] ELSE default

Digits == {"0","1","2","3","4","5","6","7","8","9"}

\* the characters \w matches
WordChars == AlphaChars \cup Digits \cup {"_"}

\* the pattern p, in which "." stands for any character, matches s at position i
MatchesAt(p, s, i) ==
    /\ i + Len(p) - 1 <= Len(s)
    /\ \A k \in 1..Len(p) : p[k] = "." \/ p[k] = s[i + k - 1]

\* re.search of p in s, both in lower case
Search(p, s) == \E i \in 1..Len(s) : MatchesAt(p, s, i)

\* re.search of \bp\b in s
SearchWord(p, s) ==
    \E i \in 1..Len(s) :
        /\ MatchesAt(p, s, i)
        /\ i = 1 \/ s[i - 1] \notin WordChars
        /\ i + Len(p) > Len(s) \/ s[i + Len(p)] \notin WordChars

\* the alternatives of _JUNK_NAME_PATTERNS that match a prefix of the name
JunkPrefixes == { <<"h","t","t","p">>, <<"w","w","w",".">>, <<"/">>, <<"@">>, <<"#">> }

\* the alternatives of _JUNK_NAME_PATTERNS that end in $
JunkNames ==
    { <<"n","a">>, <<"n","/","a">>, <<"n","o","n","e">>, <<"n","u","l","l">>,
      <<"u","n","k","n","o","w","n">>, <<"t","e","a","m">>, <<"s","t","a","f","f">>,
      <<"o","u","r"," ","t","e","a","m">>, <<"c","o","n","t","a","c","t"," ","u","s">>,
      <<"h","o","m","e">>, <<"s","e","r","v","i","c","e">>, <<"s","e","r","v","i","c","e","s">> }

\* _JUNK_NAME_PATTERNS.search(name), name in lower case
IsJunkName(n) ==
    \/ \E p \in JunkPrefixes : StartsWith(n, p)
    \/ Len(n) >= 3 /\ \A k \in 1..3 : n[k] \in Digits
    \/ n \in JunkNames

_BUSINESS_NAME_WORDS ==
    { <<"s","e","r","v","i","c","e">>, <<"p","l","u","m","b","i","n","g">>,
      <<"e","l","e","c","t","r","i","c">>, <<"h","v","a","c">>, <<"r","o","o","f","i","n","g">>,
      <<"d","e","n","t","a","l">>, <<"c","l","i","n","i","c">>, <<"c","o","m","p","a","n","y">>,
      <<"i","n","c">>, <<"l","l","c">>, <<"c","o","r","p">>, <<"l","t","d">>,
      <<"g","r","o","u","p">>, <<"a","s","s","o","c","i","a","t","e","s">>,
      <<"s","o","l","u","t","i","o","n","s">>, <<"c","o","n","s","t","r","u","c","t","i","o","n">>,
      <<"r","e","p","a","i","r">>, <<"m","a","i","n","t","e","n","a","n","c","e">>,
      <<"i","n","s","t","a","l","l","a","t","i","o","n">> }

\* the alternatives of _NON_DECISION_TITLE_WORDS without \b
NonDecisionTitlePatterns ==
    { <<"t","e","a","m",".","l","e","a","d">>, <<"c","o","o","r","d","i","n","a","t","o","r">>,
      <<"t","e","c","h","n","i","c","i","a","n">>, <<"a","s","s","i","s","t","a","n","t">>,
      <<"r","e","c","e","p","t","i","o","n","i","s","t">>, <<"d","i","s","p","a","t","c","h","e","r">>,
      <<"s","e","c","r","e","t","a","r","y">>, <<"c","l","e","r","k">>, <<"t","r","a","i","n","e","e">>,
      <<"s","p","e","c","i","a","l","i","s","t">>, <<"a","n","a","l","y","s","t">>,
      <<"d","e","v","e","l","o","p","e","r">>, <<"d","e","s","i","g","n","e","r">>,
      <<"a","c","c","o","u","n","t","a","n","t">>, <<"b","o","o","k","k","e","e","p","e","r">>,
      <<"p","a","y","r","o","l","l">>,
      <<"c","u","s","t","o","m","e","r",".","s","e","r","v","i","c","e">>,
      <<"e","s","t","i","m","a","t","o","r">>, <<"s","u","p","e","r","v","i","s","o","r">>,
      <<"f","o","r","e","m","a","n">> }

\* the alternatives of _NON_DECISION_TITLE_WORDS between \b and \b
NonDecisionTitleWords == { <<"t","e","c","h">>, <<"i","n","t","e","r","n">>, <<"s","u","p","p","o","r","t">> }

_MANAGER_PATTERN == <<"m","a","n","a","g","e","r">>

_MANAGER_EXCEPTIONS ==
    { <<"g","e","n","e","r","a","l",".","m","a","n","a","g","e","r">>, <<"m","a","n","a","g","i","n","g">> }

\* title in lower case
_is_non_decision_title(title) ==
    \/ \E p \in NonDecisionTitlePatterns : Search(p, title)
    \/ \E w \in NonDecisionTitleWords : SearchWord(w, title)
    \/ SearchWord(_MANAGER_PATTERN, title) /\ ~\E p \in _MANAGER_EXCEPTIONS : Search(p, title)

\* DecisionMaker.model_validate(entry) raises: entry is no object, name is missing or no
\* string, or title is neither null nor a string
ValidationFails(entry) ==
    \/ entry.type # "object"
    \/ "name" \notin DOMAIN entry.fields
    \/ entry.fields.name.type # "string"
    \/ Get(entry, "title", JNull).type \notin {"null", "string"}

\* the title of a validated entry
TitleOf(entry) ==
    IF Get(entry, "title", JNull).type = "null" THEN None
    ELSE Some(Get(entry, "title", JNull).chars)

\* lines 204-232 on a validated record: one of the continue statements is reached
Rejected(name, title) ==
    \/ Len(name) < 2
    \/ IsJunkName(StrLower(name))
    \/ ~\E k \in 1..Len(name) : name[k] \in AlphaChars
    \/ \E w \in _BUSINESS_NAME_WORDS : SearchWord(w, StrLower(name))
    \/ title # None /\ The(title) # <<>> /\ _is_non_decision_title(StrLower(The(title)))
    \/ title = None /\ ~StrIn(<<Space>>, name)

\* the body of the loop of lines 200-236 for one entry: the records (none or one) it appends
ValidatedOf(entry) ==
    IF ValidationFails(entry) THEN <<>>
    ELSE IF Rejected(Strip(entry.fields.name.chars), TitleOf(entry)) THEN <<>>
    ELSE <<DecisionMaker(entry.fields.name.chars, TitleOf(entry))>>

RECURSIVE Validated(_)
Validated(entries) ==
    IF entries = <<>> THEN <<>> ELSE ValidatedOf(Head(entries)) \o Validated(Tail(entries))

\* lines 184-188: what one item of a list of chunk results adds to all_makers
ChunkMakers(item) ==
    IF item.type # "object" THEN <<>>
    ELSE IF Get(item, "decision_makers", JArray(<<item>>)).type = "array"
         THEN Get(item, "decision_makers", JArray(<<item>>)).items
         ELSE <<>>

RECURSIVE AllMakers(_)
AllMakers(items) ==
    IF items = <<>> THEN <<>> ELSE ChunkMakers(Head(items)) \o AllMakers(Tail(items))

\* for entry in data_list: the entries the loop of line 200 sees.  A str yields its
\* characters and a dict its keys, which are strings (their characters are left out)
Iterate(data_list) ==
    IF data_list.type = "array" THEN data_list.items
    ELSE IF data_list.type = "string"
         THEN [k \in 1..Len(data_list.chars) |-> JString(<<data_list.chars[k]>>)]
    ELSE [k \in 1..Cardinality(DOMAIN data_list.fields) |-> JString(<<>>)]

\* line 200 raises TypeError: data_list is neither a list, a str nor a dict
NotIterable(data_list) == data_list.type \in {"null", "number"}

\* lines 182-193: data_list, for a document that is a list or a dict
DataList(data) ==
    IF data.type = "array" THEN JArray(AllMakers(data.items))
    ELSE Get(data, "decision_makers", JArray(<<>>))

\* _parse_extraction(raw) raises
parse_raises(raw) == raw.type \in {"array", "object"} /\ NotIterable(DataList(raw))

\* _parse_extraction(raw), when it returns
_parse_extraction(raw) ==
    IF raw.type \notin {"array", "object"} THEN <<>>
    ELSE Validated(Iterate(DataList(raw)))

-----------------------------------------------------------------------------
(* Bounds                                                                  *)

MaxPagesBound == 4

MaxWorkersBound == 2

MaxSites == 2

MaxBatchPages == 2

-----------------------------------------------------------------------------
(* State                                                                   *)

VARIABLES
    call,                \* the call: entry point and its arguments
    args,                \* Optional: the argparse namespace of cli.main, None for a library call
    content,             \* the site: for each URL it pins, the page every fetch of it returns
    extracted,           \* history, Optional: the last page whose extracted_content was parsed
    site,                \* index in call.urls of the site being scraped
    pc,                  \* position of the orchestrating flow
    exc,                 \* Optional: str(e) of the exception in flight through finally
    max_workers,         \* scrape_decision_makers.max_workers after line 80
    semaphore,           \* Optional: asyncio.Semaphore._value, None before construction
    crawl_manager,       \* "unconstructed" | "constructed"
    crawler,             \* CrawlManager._crawler: NoCrawler | "AsyncWebCrawler"
    close_calls,         \* calls of CrawlManager.close in this run
    seen,                \* URLDeduplicator._seen
    frontier,            \* asyncio.Queue contents
    total_queued,
    all_decision_makers,
    errors,
    pages_crawled,
    pages_skipped,
    wave,                \* the list wave of the running iteration
    tasks,               \* state of the _process_page task of each wave member
    results,             \* scrape_multiple.results, or the single call's return value
    raised,              \* Optional: str(e) of the exception the single call raised
    queued,              \* history: every URL put on the frontier in this run, in order
    queued_wave,         \* history: the wave number during which queued[i] was put
    dup_rejected,        \* history: the links for which dedup.is_new returned False
    wave_no,             \* history: number of waves collected in this run
    fetch_failed,        \* history: wave URLs whose crawler.arun raised or was unsuccessful
    task_raised,         \* history: wave URLs whose task caught an exception
    fetch_calls,         \* history: bag of the URLs passed to crawl_and_extract in this run
    site_log             \* history: how the run of each finished site ended

vars == <<call, args, content, extracted, site, pc, exc, max_workers, semaphore, crawl_manager, crawler, close_calls,
          seen, frontier, total_queued, all_decision_makers, errors, pages_crawled,
          pages_skipped, wave, tasks, results, raised, queued, queued_wave, dup_rejected, wave_no,
          fetch_failed, task_raised, fetch_calls, site_log>>

run_vars == <<seen, frontier, total_queued, all_decision_makers, errors, pages_crawled,
              pages_skipped, queued, queued_wave, dup_rejected>>

SiteLists == { <<Str_example_root>>, <<Str_b_root, Str_b_root>> }

\* scrape_decision_makers(url, api_token, max_pages, max_workers)
SingleCalls ==
    { [entry |-> "scrape_decision_makers", urls |-> <<u>>, max_pages |-> p, max_workers |-> w] :
        u \in {Str_example_root, Str_b_root}, p \in 0..MaxPagesBound,
        w \in {Some(n) : n \in -1..MaxWorkersBound} \cup {None} }

\* scrape_multiple(urls, api_token, max_pages_per_site)
BatchCalls ==
    { [entry |-> "scrape_multiple", urls |-> us, max_pages |-> p, max_workers |-> None] :
        us \in { s \in SiteLists : Len(s) <= MaxSites }, p \in 1..MaxBatchPages }

\* scrape_decision_makers on the root whose path is in the skip tier
EdgeCalls ==
    { [entry |-> "scrape_decision_makers", urls |-> <<Str_her_blog_root>>, max_pages |-> p,
       max_workers |-> w] :
        p \in 0..MaxPagesBound, w \in {Some(-1), Some(MaxWorkersBound)} }

url == call.urls[site]

max_pages == call.max_pages

\* no run has left a trace
Fresh ==
    /\ site = 1
    /\ exc = None
    /\ max_workers = 0
    /\ semaphore = None
    /\ crawl_manager = "unconstructed"
    /\ crawler = NoCrawler
    /\ close_calls = 0
    /\ seen = {}
    /\ frontier = <<>>
    /\ total_queued = 0
    /\ all_decision_makers = <<>>
    /\ errors = <<>>
    /\ pages_crawled = 0
    /\ pages_skipped = 0
    /\ wave = <<>>
    /\ tasks = <<>>
    /\ results = <<>>
    /\ raised = None
    /\ queued = <<>>
    /\ queued_wave = <<>>
    /\ dup_rejected = {}
    /\ wave_no = 0
    /\ fetch_failed = {}
    /\ task_raised = {}
    /\ fetch_calls = EmptyBag
    /\ site_log = <<>>
    /\ extracted = None

\* nothing has run yet
Idle == pc = "call" /\ Fresh

\* a site of which no page is pinned: every fetch returns any page of the model
AnyContent == [u \in {} |-> [links |-> <<>>, makers |-> <<>>]]

\* a library call on a site of which no page is pinned
LibraryCall == args = None /\ content = AnyContent

Init == call \in SingleCalls \cup BatchCalls /\ LibraryCall /\ Idle

EdgeInit == call \in EdgeCalls /\ LibraryCall /\ Idle

\* the site https://example.com/ whose homepage links to /about-us, /blog/post-1 and /contact
HomepageContent ==
    { [u \in {Str_example_root} |->
          [links |-> <<Href_about_us, Href_blog_post, Href_contact>>, makers |-> m]] :
        m \in MakerLists }

\* scrape_decision_makers on that site with max_pages=5
ScenarioCalls ==
    { [entry |-> "scrape_decision_makers", urls |-> <<Str_example_root>>, max_pages |-> 5,
       max_workers |-> w] :
        w \in {Some(-1), Some(MaxWorkersBound)} }

Name_acme_plumbing == <<"A","c","m","e"," ","P","l","u","m","b","i","n","g">>

Name_bob == <<"B","o","b">>

Name_al_roe == <<"A","l"," ","R","o","e">>

Title_project_manager == <<"P","r","o","j","e","c","t"," ","M","a","n","a","g","e","r">>

Text_n_a == <<"n","/","a">>

\* an entry of a decision_makers list with a name and a title
Entry(name, title) == JObject([name |-> JString(name), title |-> JString(title)])

Entry_no_name == JObject([title |-> JString(Title_owner)])

\* text that is no JSON
Raw_invalid == JInvalid

\* 5
Raw_number == JNumber

\* {"decision_makers": null}
Raw_null_makers == JObject([decision_makers |-> JNull])

\* {"decision_makers": "n/a"}
Raw_string_makers == JObject([decision_makers |-> JString(Text_n_a)])

\* {"error": "n/a"}
Raw_no_makers_key == JObject([error |-> JString(Text_n_a)])

\* {"decision_makers": [{"title": "Owner"}, "n/a", 5]}: no entry is a DecisionMaker
Raw_no_valid_entry ==
    JObject([decision_makers |-> JArray(<<Entry_no_name, JString(Text_n_a), JNumber>>)])

\* a business name, a first name without a title and a project manager
Raw_all_rejected ==
    JObject([decision_makers |->
                JArray(<<Entry(Name_acme_plumbing, Title_owner),
                         JObject([name |-> JString(Name_bob), title |-> JNull]),
                         Entry(Name_al_roe, Title_project_manager)>>)])

\* {"decision_makers": [{"name": "Jane Smith", "title": "CEO"}, {"title": "Owner"}]}
Raw_one_valid ==
    JObject([decision_makers |-> JArray(<<Entry(Name_jane_smith, Title_ceo), Entry_no_name>>)])

\* a list of chunk results: a chunk with a list, a chunk whose decision_makers is null,
\* a number and a chunk that is itself an entry
Raw_chunks ==
    JArray(<<JObject([decision_makers |-> JArray(<<Entry(Name_john_doe, Title_owner)>>)]),
             Raw_null_makers, JNumber, Entry(Name_jane_smith, Title_ceo)>>)

\* result.extracted_content of the fetched pages
ExtractedContents ==
    { Raw_invalid, Raw_number, Raw_null_makers, Raw_string_makers, Raw_no_makers_key,
      Raw_no_valid_entry, Raw_all_rejected, Raw_one_valid, Raw_chunks }

\* scrape_decision_makers on a site whose pages carry these extraction outputs
ExtractCalls ==
    { [entry |-> "scrape_decision_makers", urls |-> <<Str_example_root>>, max_pages |-> p,
       max_workers |-> w] :
        p \in 1..MaxBatchPages, w \in {Some(-1), Some(MaxWorkersBound)} }

ExtractInit == call \in ExtractCalls /\ LibraryCall /\ Idle

\* cli.py lines 29-63: the namespace parse_args returns for a command line with one or more
\* URLs, --max-pages and, or not, --max-workers (the API key and the output mode do not
\* reach the scrape)
CliArgs ==
    { [urls |-> us, max_pages |-> p, max_workers |-> w] :
        us \in { s \in SiteLists : Len(s) <= MaxSites }, p \in 1..MaxBatchPages,
        w \in {None, Some(1), Some(MaxWorkersBound + 1)} }

\* before main has called the library there is no call
NoCall == [entry |-> "main", urls |-> <<>>, max_pages |-> 0, max_workers |-> None]

\* the process has parsed its command line
CliInit ==
    /\ call = NoCall
    /\ args \in { Some(a) : a \in CliArgs }
    /\ content = AnyContent
    /\ pc = "main"
    /\ Fresh

\* the URLs of https://example.com/ that the link lists of the model lead to
SiteUrls ==
    { Str_example_root, urljoin(Str_example_root, Href_about_us),
      urljoin(Str_example_root, Href_about_us_slash), urljoin(Str_example_root, Href_contact) }

\* sites of which every page is pinned: the homepage with one link list and record list,
\* the other pages with another
PinnedContents ==
    { [u \in SiteUrls |-> IF u = Str_example_root THEN [links |-> l1, makers |-> m1]
                                                   ELSE [links |-> l2, makers |-> m2]] :
        l1 \in { <<Href_about_us, Href_blog_post, Href_contact>>,
                  <<Href_about_us_slash, Href_root, Href_other_team>> },
        l2 \in { <<>>, <<Href_about_us, Href_blog_post, Href_contact>>,
                  <<Href_about_us_slash, Href_root, Href_other_team>> },
        m1 \in MakerLists, m2 \in MakerLists }

\* scrape_decision_makers on a pinned site, with a worker cap above one
PinnedCalls ==
    { [entry |-> "scrape_decision_makers", urls |-> <<Str_example_root>>, max_pages |-> p,
       max_workers |-> Some(w)] :
        p \in 1..MaxPagesBound, w \in 2..(MaxWorkersBound + 1) }

PinnedInit ==
    /\ call \in PinnedCalls
    /\ args = None
    /\ content \in PinnedContents
    /\ Idle

ScenarioInit ==
    /\ call \in ScenarioCalls
    /\ args = None
    /\ content \in HomepageContent
    /\ Idle

-----------------------------------------------------------------------------
(* scrape_decision_makers                                                  *)

\* _expand_frontier without the test of line 109: every new link is admitted
RECURSIVE AdmitLinks_NoCap(_, _)
AdmitLinks_NoCap(prioritized, st) ==
    IF prioritized = <<>> THEN st
    ELSE IF is_new(st.seen, Head(prioritized))
         THEN AdmitLinks_NoCap(Tail(prioritized),
                               [seen |-> mark_seen(st.seen, Head(prioritized)),
                                frontier |-> Append(st.frontier, Head(prioritized)),
                                total_queued |-> st.total_queued + 1,
                                added |-> st.added + 1,
                                dups |-> st.dups])
    ELSE AdmitLinks_NoCap(Tail(prioritized), [st EXCEPT !.dups = @ \cup {Head(prioritized)}])

\* an _expand_frontier that calls dedup.is_new before it tests the budget: the link on which
\* the loop breaks has been marked seen
RECURSIVE AdmitLinks_SeenFirst(_, _)
AdmitLinks_SeenFirst(prioritized, st) ==
    IF prioritized = <<>> THEN st
    ELSE IF is_new(st.seen, Head(prioritized))
         THEN IF st.total_queued >= max_pages
              THEN [st EXCEPT !.seen = mark_seen(@, Head(prioritized))]
              ELSE AdmitLinks_SeenFirst(Tail(prioritized),
                                        [seen |-> mark_seen(st.seen, Head(prioritized)),
                                         frontier |-> Append(st.frontier, Head(prioritized)),
                                         total_queued |-> st.total_queued + 1,
                                         added |-> st.added + 1,
                                         dups |-> st.dups])
    ELSE AdmitLinks_SeenFirst(Tail(prioritized), [st EXCEPT !.dups = @ \cup {Head(prioritized)}])

\* the for loop of _expand_frontier over prioritized;
\* st = [seen, frontier, total_queued, added] and the history st.dups
RECURSIVE AdmitLinks(_, _)
AdmitLinks(prioritized, st) ==
    IF prioritized = <<>> THEN st
    ELSE IF st.total_queued >= max_pages THEN st
    ELSE IF is_new(st.seen, Head(prioritized))
         THEN AdmitLinks(Tail(prioritized),
                         [seen |-> mark_seen(st.seen, Head(prioritized)),
                          frontier |-> Append(st.frontier, Head(prioritized)),
                          total_queued |-> st.total_queued + 1,
                          added |-> st.added + 1,
                          dups |-> st.dups])
    ELSE AdmitLinks(Tail(prioritized), [st EXCEPT !.dups = @ \cup {Head(prioritized)}])

_expand_frontier(internal_links, st) ==
    AdmitLinks(Prioritized[url][internal_links].links,
               [seen |-> st.seen, frontier |-> st.frontier,
                total_queued |-> st.total_queued, added |-> 0, dups |-> {}])

\* an _expand_frontier whose write of total_queued is lost to a concurrent writer
ExpandedTo_LostCount(st) ==
    /\ seen' = st.seen
    /\ frontier' = st.frontier
    /\ total_queued' = total_queued
    /\ queued' = queued \o SubSeq(st.frontier, Len(frontier) + 1, Len(st.frontier))
    /\ queued_wave' = queued_wave \o [i \in 1..(Len(st.frontier) - Len(frontier)) |-> wave_no]
    /\ dup_rejected' = dup_rejected \cup st.dups

\* the state after an _expand_frontier call that ended in st, with its history
ExpandedTo(st) ==
    /\ seen' = st.seen
    /\ frontier' = st.frontier
    /\ total_queued' = st.total_queued
    /\ queued' = queued \o SubSeq(st.frontier, Len(frontier) + 1, Len(st.frontier))
    /\ queued_wave' = queued_wave \o [i \in 1..(Len(st.frontier) - Len(frontier)) |-> wave_no]
    /\ dup_rejected' = dup_rejected \cup st.dups

ExpandFrontierStep(internal_links) ==
    ExpandedTo(_expand_frontier(internal_links, [seen |-> seen, frontier |-> frontier,
                                                 total_queued |-> total_queued]))

ScrapeResult(u, makers, crawled, skipped, errs) ==
    [url |-> u, decision_makers |-> makers, pages_crawled |-> crawled,
     pages_skipped |-> skipped, errors |-> errs]

\* history record of a run's end: whether the try block was entered, what was raised or
\* returned, and what the run had queued
SiteEnd(entered_try, e, returned) ==
    [url |-> url, entered_try |-> entered_try, exc |-> e, returned |-> returned,
     queued |-> queued]

\* scrape_multiple's loop after one site: the next site, or return results
NextSite ==
    IF call.entry = "scrape_multiple" /\ site < Len(call.urls)
    THEN site' = site + 1 /\ pc' = "call"
    ELSE site' = site /\ pc' = "done"

\* scrape_decision_makers returns result (scrape_multiple: results.append(result))
ReturnResult(result) ==
    /\ results' = Append(results, result)
    /\ raised' = raised
    /\ NextSite

\* scrape_multiple without its try/except: the exception of one site ends the batch
RaiseException_Aborts(e) ==
    /\ results' = results
    /\ raised' = Some(e)
    /\ site' = site
    /\ pc' = "done"

\* scrape_decision_makers raises e (scrape_multiple: except Exception, error-only result)
RaiseException(e) ==
    IF call.entry = "scrape_multiple"
    THEN /\ results' = Append(results, ScrapeResult(url, <<>>, 0, 0, <<e>>))
         /\ raised' = raised
         /\ NextSite
    ELSE /\ results' = results
         /\ raised' = Some(e)
         /\ site' = site
         /\ pc' = "done"

\* lines 78-93 and the locals of lines 88-91
SetupLocals(sample) ==
    /\ max_workers' = IF call.max_workers = None
                      THEN calculate_optimal_workers(DefaultMonitor, sample.mem, sample.cpu_count)
                      ELSE The(call.max_workers)
    /\ crawl_manager' = "constructed"
    /\ crawler' = NoCrawler
    /\ close_calls' = 0
    /\ all_decision_makers' = <<>>
    /\ errors' = <<>>
    /\ pages_crawled' = 0
    /\ pages_skipped' = 0
    /\ exc' = None
    /\ wave' = <<>>
    /\ tasks' = <<>>
    /\ wave_no' = 0
    /\ fetch_failed' = {}
    /\ task_raised' = {}
    /\ fetch_calls' = EmptyBag

\* a URLDeduplicator that outlives the run: the seen-set of the earlier site is kept
Setup_SharedDedup ==
    /\ pc = "call"
    /\ \E sample \in HostSamples :
          /\ SetupLocals(sample)
          /\ max_workers' >= 0
          /\ semaphore' = Some(max_workers')
    /\ seen' = mark_seen(seen, url)
    /\ frontier' = <<url>>
    /\ total_queued' = 1
    /\ queued' = <<url>>
    /\ queued_wave' = <<0>>
    /\ dup_rejected' = {}
    /\ pc' = "links"
    /\ UNCHANGED <<call, content, args, extracted, site, results, raised, site_log>>

\* lines 78-101: a fresh run up to the await of crawl_for_links
Setup ==
    /\ pc = "call"
    /\ \E sample \in HostSamples :
          /\ SetupLocals(sample)
          /\ max_workers' >= 0
          /\ semaphore' = Some(max_workers')
    /\ seen' = mark_seen({}, url)
    /\ frontier' = <<url>>
    /\ total_queued' = 1
    /\ queued' = <<url>>
    /\ queued_wave' = <<0>>
    /\ dup_rejected' = {}
    /\ pc' = "links"
    /\ UNCHANGED <<call, content, args, extracted, site, results, raised, site_log>>

\* line 94: asyncio.Semaphore(max_workers) raises ValueError for a negative value,
\* outside the try block
SetupSemaphoreRaises ==
    /\ pc = "call"
    /\ \E sample \in HostSamples :
          /\ SetupLocals(sample)
          /\ max_workers' < 0
    /\ semaphore' = None
    /\ seen' = {}
    /\ frontier' = <<>>
    /\ total_queued' = 0
    /\ queued' = <<>>
    /\ queued_wave' = <<>>
    /\ dup_rejected' = {}
    /\ site_log' = Append(site_log, SiteEnd(FALSE, Some(Msg_semaphore), None))
    /\ RaiseException(Msg_semaphore)
    /\ UNCHANGED <<call, content, args, extracted>>

\* result.links["internal"] of a fetch of page u
LinksOf(u) == IF u \in DOMAIN content THEN {content[u].links} ELSE LinkBatches

\* the validated records _parse_extraction returns for a fetch of page u
MakersOf(u) == IF u \in DOMAIN content THEN {content[u].makers} ELSE MakerLists

\* CrawlManager._ensure_crawler: the crawler object is stored before start() is awaited
_ensure_crawler == crawler' = "AsyncWebCrawler"

\* lines 120-127: crawl_for_links succeeded with internal_links
LinksOk ==
    /\ pc = "links"
    /\ _ensure_crawler
    /\ \E internal_links \in LinksOf(url) :
          IF Prioritized[url][internal_links].raises
          THEN /\ exc' = Some(Msg_invalid_ipv6)
               /\ pc' = "finally"
               /\ UNCHANGED <<seen, frontier, total_queued, queued, queued_wave, dup_rejected>>
          ELSE /\ ExpandFrontierStep(internal_links)
               /\ exc' = exc
               /\ pc' = "drain"
    /\ UNCHANGED <<call, content, args, extracted, fetch_calls, site, max_workers, semaphore, crawl_manager, close_calls,
                   all_decision_makers, errors, pages_crawled, pages_skipped, wave, tasks,
                   results, raised, wave_no, fetch_failed, task_raised, site_log>>

\* lines 128-129: crawl_for_links caught the failure of arun, or the result was unsuccessful
LinksUnsuccessful ==
    /\ pc = "links"
    /\ _ensure_crawler
    /\ pc' = "drain"
    /\ UNCHANGED <<call, content, args, extracted, fetch_calls, site, exc, max_workers, semaphore, crawl_manager, close_calls,
                   run_vars, wave, tasks, results, raised, wave_no, fetch_failed,
                   task_raised, site_log>>

\* crawl_for_links line 117: crawler.start() raises inside _ensure_crawler, outside its try
LinksRaises ==
    /\ pc = "links"
    /\ _ensure_crawler
    /\ exc' = Some(Msg_browser)
    /\ pc' = "finally"
    /\ UNCHANGED <<call, content, args, extracted, fetch_calls, site, max_workers, semaphore, crawl_manager, close_calls,
                   run_vars, wave, tasks, results, raised, wave_no, fetch_failed,
                   task_raised, site_log>>

\* a loop that takes one URL from the frontier per iteration
CollectWave_OneAtATime ==
    /\ pc = "drain"
    /\ frontier # <<>>
    /\ wave' = <<Head(frontier)>>
    /\ frontier' = Tail(frontier)
    /\ tasks' = <<"created">>
    /\ wave_no' = wave_no + 1
    /\ pc' = "gather"
    /\ UNCHANGED <<call, content, args, extracted, fetch_calls, site, exc, max_workers, semaphore, crawl_manager, crawler,
                   close_calls, seen, total_queued, all_decision_makers, errors, pages_crawled,
                   pages_skipped, results, raised, queued, queued_wave, dup_rejected,
                   fetch_failed, task_raised, site_log>>

\* lines 158-166: the frontier is drained into a wave and one task is created per member
CollectWave ==
    /\ pc = "drain"
    /\ frontier # <<>>
    /\ wave' = frontier
    /\ frontier' = <<>>
    /\ tasks' = [i \in 1..Len(frontier) |-> "created"]
    /\ wave_no' = wave_no + 1
    /\ pc' = "gather"
    /\ UNCHANGED <<call, content, args, extracted, fetch_calls, site, exc, max_workers, semaphore, crawl_manager, crawler, close_calls,
                   seen, total_queued, all_decision_makers, errors, pages_crawled,
                   pages_skipped, results, raised, queued, queued_wave, dup_rejected,
                   fetch_failed,
                   task_raised, site_log>>

\* task i stands at async with semaphore and a permit is free
CanAcquire(i) ==
    /\ pc = "gather"
    /\ tasks[i] = "created"
    /\ semaphore # None
    /\ The(semaphore) > 0

\* task i awaits crawl_and_extract
InCrawl(i) == pc = "gather" /\ tasks[i] = "fetching"

\* _process_page without the semaphore: the task starts its fetch at once
Acquire_NoSemaphore(i) ==
    /\ pc = "gather"
    /\ tasks[i] = "created"
    /\ semaphore # None
    /\ semaphore' = Some(The(semaphore) - 1)
    /\ tasks' = [tasks EXCEPT ![i] = "fetching"]
    /\ fetch_calls' = fetch_calls (+) SetToBag({wave[i]})
    /\ UNCHANGED <<call, content, args, extracted, site, pc, exc, max_workers, crawl_manager, crawler, close_calls,
                   run_vars, wave, results, raised, wave_no, fetch_failed, task_raised, site_log>>

\* line 137: async with semaphore, entered when a permit is free
Acquire(i) ==
    /\ CanAcquire(i)
    /\ semaphore' = Some(The(semaphore) - 1)
    /\ tasks' = [tasks EXCEPT ![i] = "fetching"]
    /\ fetch_calls' = fetch_calls (+) SetToBag({wave[i]})
    /\ UNCHANGED <<call, content, args, extracted, site, pc, exc, max_workers, crawl_manager, crawler, close_calls,
                   run_vars, wave, results, raised, wave_no, fetch_failed, task_raised, site_log>>

\* lines 141-151 after crawl_and_extract returned (makers, new_links), then the
\* semaphore is released; an exception of _expand_frontier reaches lines 153-154
ProcessReturned(i, makers, new_links) ==
    /\ all_decision_makers' = all_decision_makers \o makers
    /\ pages_crawled' = pages_crawled + 1
    /\ IF new_links # <<>> /\ total_queued < max_pages
       THEN IF Prioritized[url][new_links].raises
            THEN /\ errors' = Append(errors, wave[i] \o <<":", " ">> \o Msg_invalid_ipv6)
                 /\ pages_skipped' = pages_skipped + 1
                 /\ task_raised' = task_raised \cup {wave[i]}
                 /\ UNCHANGED <<seen, frontier, total_queued, queued, queued_wave, dup_rejected>>
            ELSE /\ ExpandFrontierStep(new_links)
                 /\ UNCHANGED <<errors, pages_skipped, task_raised>>
       ELSE UNCHANGED <<seen, frontier, total_queued, queued, queued_wave, dup_rejected, errors,
                        pages_skipped, task_raised>>
    /\ semaphore' = Some(The(semaphore) + 1)
    /\ tasks' = [tasks EXCEPT ![i] = "done"]

\* crawl_and_extract lines 163-171: the crawl succeeded
FetchSucceeds(i) ==
    /\ InCrawl(i)
    /\ \E makers \in MakersOf(wave[i]), new_links \in LinksOf(wave[i]) :
          ProcessReturned(i, makers, new_links)
    /\ UNCHANGED <<call, content, args, extracted, fetch_calls, site, pc, exc, max_workers, crawl_manager, crawler, close_calls,
                   wave, results, raised, wave_no, fetch_failed, site_log>>

\* crawl_and_extract lines 153-161: arun raised or the result is unsuccessful; ([], []) returned
FetchFails(i) ==
    /\ InCrawl(i)
    /\ ProcessReturned(i, <<>>, <<>>)
    /\ fetch_failed' = fetch_failed \cup {wave[i]}
    /\ UNCHANGED <<call, content, args, extracted, fetch_calls, site, pc, exc, max_workers, crawl_manager, crawler, close_calls,
                   wave, results, raised, wave_no, site_log>>

\* _process_page without its except clause and gather without return_exceptions:
\* the exception leaves the wave loop
FetchRaises_Propagates(i) ==
    /\ pc = "gather"
    /\ tasks[i] = "fetching"
    /\ task_raised' = task_raised \cup {wave[i]}
    /\ exc' = Some(Msg_not_iterable)
    /\ pc' = "finally"
    /\ UNCHANGED <<call, content, args, extracted, fetch_calls, site, max_workers, semaphore, crawl_manager, crawler, close_calls,
                   run_vars, wave, tasks, results, raised, wave_no, fetch_failed, site_log>>

\* lines 152-154: crawl_and_extract raised (its code outside the try around arun,
\* such as _parse_extraction iterating a decision_makers value that is no list)
FetchRaises(i) ==
    /\ InCrawl(i)
    /\ errors' = Append(errors, wave[i] \o <<":", " ">> \o Msg_not_iterable)
    /\ pages_skipped' = pages_skipped + 1
    /\ task_raised' = task_raised \cup {wave[i]}
    /\ semaphore' = Some(The(semaphore) + 1)
    /\ tasks' = [tasks EXCEPT ![i] = "done"]
    /\ UNCHANGED <<call, content, args, extracted, fetch_calls, site, pc, exc, max_workers, crawl_manager, crawler, close_calls,
                   seen, frontier, total_queued, all_decision_makers, pages_crawled,
                   queued, queued_wave, dup_rejected, wave, results, raised, wave_no, fetch_failed, site_log>>

\* crawl_and_extract lines 163-171: the crawl succeeded with extracted_content raw, which
\* _parse_extraction parses; its TypeError reaches lines 152-154 of _process_page
FetchExtracts(i) ==
    /\ InCrawl(i)
    /\ \E raw \in ExtractedContents, new_links \in LinksOf(wave[i]) :
          /\ extracted' = Some([url |-> wave[i], raw |-> raw, links |-> new_links])
          /\ IF parse_raises(raw)
             THEN /\ errors' = Append(errors, wave[i] \o <<":", " ">> \o Msg_not_iterable)
                  /\ pages_skipped' = pages_skipped + 1
                  /\ task_raised' = task_raised \cup {wave[i]}
                  /\ semaphore' = Some(The(semaphore) + 1)
                  /\ tasks' = [tasks EXCEPT ![i] = "done"]
                  /\ UNCHANGED <<seen, frontier, total_queued, all_decision_makers,
                                 pages_crawled, queued, queued_wave, dup_rejected>>
             ELSE ProcessReturned(i, _parse_extraction(raw), new_links)
    /\ UNCHANGED <<call, content, args, fetch_calls, site, pc, exc, max_workers, crawl_manager,
                   crawler, close_calls, wave, results, raised, wave_no, fetch_failed, site_log>>

\* a wait that returns with the first resolved task
GatherReturns_FirstCompleted ==
    /\ pc = "gather"
    /\ \E i \in 1..Len(tasks) : tasks[i] = "done"
    /\ pc' = "drain"
    /\ UNCHANGED <<call, content, args, extracted, fetch_calls, site, exc, max_workers, semaphore, crawl_manager, crawler,
                   close_calls, run_vars, wave, tasks, results, raised, wave_no,
                   fetch_failed, task_raised, site_log>>

\* line 167: gather returns once every task of the wave has resolved
GatherReturns ==
    /\ pc = "gather"
    /\ \A i \in 1..Len(tasks) : tasks[i] = "done"
    /\ pc' = "drain"
    /\ UNCHANGED <<call, content, args, extracted, fetch_calls, site, exc, max_workers, semaphore, crawl_manager, crawler,
                   close_calls, run_vars, wave, tasks, results, raised, wave_no,
                   fetch_failed, task_raised, site_log>>

\* lines 158, 169-180: the frontier is empty; the entity dedup pass runs
LoopExits ==
    /\ pc = "drain"
    /\ frontier = <<>>
    /\ pc' = "finally"
    /\ UNCHANGED <<call, content, args, extracted, fetch_calls, site, exc, max_workers, semaphore, crawl_manager, crawler,
                   close_calls, run_vars, wave, tasks, results, raised, wave_no,
                   fetch_failed, task_raised, site_log>>

\* CrawlManager.close
close ==
    /\ crawler' = NoCrawler
    /\ close_calls' = close_calls + 1

\* the value of the return statement of lines 185-191
RunResult ==
    ScrapeResult(url, UniqueMakers(all_decision_makers, <<>>), pages_crawled, pages_skipped,
                 errors)

\* close after the loop instead of in a finally clause: skipped when an exception is in flight
Finally_CloseOnSuccessOnly ==
    /\ pc = "finally"
    /\ IF exc = None
       THEN /\ close
            /\ site_log' = Append(site_log, SiteEnd(TRUE, exc, Some(RunResult)))
            /\ ReturnResult(RunResult)
       ELSE /\ UNCHANGED <<crawler, close_calls>>
            /\ site_log' = Append(site_log, SiteEnd(TRUE, exc, None))
            /\ RaiseException(The(exc))
    /\ UNCHANGED <<call, content, args, extracted, fetch_calls, exc, max_workers, semaphore, crawl_manager, run_vars, wave, tasks,
                   wave_no, fetch_failed, task_raised>>

\* lines 182-191: finally awaits close, then the run returns its result or re-raises
Finally ==
    /\ pc = "finally"
    /\ close
    /\ site_log' = Append(site_log, SiteEnd(TRUE, exc, IF exc = None THEN Some(RunResult) ELSE None))
    /\ IF exc = None
       THEN ReturnResult(RunResult)
       ELSE RaiseException(The(exc))
    /\ UNCHANGED <<call, content, args, extracted, fetch_calls, exc, max_workers, semaphore, crawl_manager, run_vars, wave, tasks,
                   wave_no, fetch_failed, task_raised>>

Next ==
    \/ Setup
    \/ SetupSemaphoreRaises
    \/ LinksOk
    \/ LinksUnsuccessful
    \/ LinksRaises
    \/ CollectWave
    \/ \E i \in 1..Len(tasks) : Acquire(i)
    \/ \E i \in 1..Len(tasks) : FetchSucceeds(i)
    \/ \E i \in 1..Len(tasks) : FetchFails(i)
    \/ \E i \in 1..Len(tasks) : FetchRaises(i)
    \/ GatherReturns
    \/ LoopExits
    \/ Finally

Spec == Init /\ [][Next]_vars

\* cli.py lines 76-83: run() awaits scrape_multiple(urls, api_token, max_pages_per_site);
\* args.max_workers is not among its arguments
Main ==
    /\ pc = "main"
    /\ call' = [entry |-> "scrape_multiple", urls |-> The(args).urls,
                max_pages |-> The(args).max_pages, max_workers |-> None]
    /\ pc' = "call"
    /\ UNCHANGED <<content, args, extracted, site, exc, max_workers, semaphore, crawl_manager,
                   crawler, close_calls, run_vars, wave, tasks, results, raised, wave_no,
                   fetch_failed, task_raised, fetch_calls, site_log>>

\* the command-line program: main, then the runs of scrape_multiple, which passes no
\* max_workers, so that asyncio.Semaphore gets the auto-detected count (at least 1)
CliNext ==
    \/ Main
    \/ Setup
    \/ LinksOk
    \/ LinksUnsuccessful
    \/ LinksRaises
    \/ CollectWave
    \/ \E i \in 1..Len(tasks) : Acquire(i)
    \/ \E i \in 1..Len(tasks) : FetchSucceeds(i)
    \/ \E i \in 1..Len(tasks) : FetchFails(i)
    \/ \E i \in 1..Len(tasks) : FetchRaises(i)
    \/ GatherReturns
    \/ LoopExits
    \/ Finally

CliSpec == CliInit /\ [][CliNext]_vars

EdgeSpec == EdgeInit /\ [][Next]_vars

ScenarioSpec == ScenarioInit /\ [][Next]_vars

\* the run on a site none of whose fetches fails
NoFailureNext ==
    \/ Setup
    \/ LinksOk
    \/ CollectWave
    \/ \E i \in 1..Len(tasks) : Acquire(i)
    \/ \E i \in 1..Len(tasks) : FetchSucceeds(i)
    \/ GatherReturns
    \/ LoopExits
    \/ Finally

PinnedSpec == PinnedInit /\ [][NoFailureNext]_vars

\* the run with the extraction output of each page parsed by _parse_extraction
ExtractNext ==
    \/ Next
    \/ \E i \in 1..Len(tasks) : FetchExtracts(i)

ExtractSpec == ExtractInit /\ [][ExtractNext]_vars

-----------------------------------------------------------------------------
(* Direct calls of the units: normalize_url, URLDeduplicator,              *)
(* ResourceMonitor.calculate_optimal_workers and the entity dedup pass     *)

MaxCalls == 3

Url_4slash_x == <<"/","/","/","/","x">>

Url_https_4slash_x == <<"h","t","t","p","s",":","/","/","/","/","x">>

Url_upper_about == <<"H","T","T","P","S",":","/","/","E","x","a","m","p","l","e",".","c","o","m","/","A","b","o","u","t","/">>

Url_rel_about_slash == <<"/","a","b","o","u","t","-","u","s","/">>

Url_query_fragment == <<"/","x","?","u","t","m","=","1","#","t","o","p">>

Url_no_scheme == <<"e","x","a","m","p","l","e",".","c","o","m","/","x","/">>

Url_double_slash_path == <<"h","t","t","p","s",":","/","/","e","x","a","m","p","l","e",".","c","o","m","/","/">>

Url_fragment_only == <<"#","f">>

\* the arguments of the normalize_url calls
NormalizeUrls ==
    { Url_4slash_x, Url_https_4slash_x, Url_upper_about, Url_rel_about_slash, Url_query_fragment,
      Url_no_scheme, Url_double_slash_path, Url_fragment_only, <<>>, Str_b_root, Str_example_root }

\* the URLs passed to is_new: two spellings of the B.test root and of /about-us among them
DedupUrls ==
    { Str_b_root, urljoin(Str_b_root, Href_root), Str_example_root,
      urljoin(Str_example_root, Href_about_us), urljoin(Str_example_root, Href_about_us_slash) }

RECURSIVE SeqsUpTo(_, _)
SeqsUpTo(S, n) ==
    IF n = 0 THEN {<<>>}
    ELSE SeqsUpTo(S, n - 1) \cup { Append(s, x) : s \in { q \in SeqsUpTo(S, n - 1) : Len(q) = n - 1 }, x \in S }

\* normalize_url(normalize_url(url))
NormalizeCalls == { [entry |-> "normalize_url", url |-> u] : u \in NormalizeUrls }

\* one URLDeduplicator and the is_new calls made on it, in order
DedupCalls ==
    { [entry |-> "URLDeduplicator.is_new", urls |-> us] : us \in SeqsUpTo(DedupUrls, MaxCalls) \ {<<>>} }

\* the variables a unit call leaves alone
unit_rest == <<site, exc, max_workers, semaphore, crawl_manager, crawler, close_calls, frontier,
               total_queued, all_decision_makers, errors, pages_crawled, pages_skipped, wave,
               tasks, raised, queued, queued_wave, dup_rejected, wave_no, fetch_failed,
               task_raised, fetch_calls, site_log>>

\* URLDeduplicator.count
count(seen_set) == Cardinality(seen_set)

\* normalize_url is applied to the argument, then to its own result
NormalizeCall ==
    /\ pc = "call"
    /\ call.entry = "normalize_url"
    /\ results' = Append(results, normalize_url(IF results = <<>> THEN call.url
                                                ELSE results[Len(results)]))
    /\ pc' = IF Len(results) = 1 THEN "done" ELSE "call"
    /\ UNCHANGED <<call, content, args, extracted, seen, unit_rest>>

\* the next is_new call on the deduplicator: its return value is recorded in results
IsNewCall ==
    /\ pc = "call"
    /\ call.entry = "URLDeduplicator.is_new"
    /\ results' = Append(results, is_new(seen, call.urls[Len(results) + 1]))
    /\ seen' = IF is_new(seen, call.urls[Len(results) + 1])
               THEN mark_seen(seen, call.urls[Len(results) + 1])
               ELSE seen
    /\ pc' = IF Len(results) + 1 = Len(call.urls) THEN "done" ELSE "call"
    /\ UNCHANGED <<call, content, args, extracted, unit_rest>>

\* ResourceMonitor(max_memory_percent, min_free_memory_mb, max_workers, min_workers)
MonitorConfigs ==
    { [max_memory_percent |-> 75, min_free_memory_mb |-> 512, max_workers |-> a, min_workers |-> b] :
        a \in {1, 2, 10}, b \in {1, 3} }

\* psutil.virtual_memory(): percent used and available memory, around the ceiling, the floor
\* and the 200 MB steps above the floor
MemSamples ==
    { [percent |-> p, available_mb |-> a] : p \in {40, 75, 80}, a \in {0, 511, 512, 711, 712, 1000, 4000} }

\* os.cpu_count(), 0 for None
CpuCounts == {0, 1, 4}

WorkersCalls ==
    { [entry |-> "calculate_optimal_workers", self |-> c, mem |-> m, cpu_count |-> n] :
        c \in MonitorConfigs, m \in MemSamples, n \in CpuCounts }

WorkersCall ==
    /\ pc = "call"
    /\ call.entry = "calculate_optimal_workers"
    /\ results' = <<calculate_optimal_workers(call.self, call.mem, call.cpu_count)>>
    /\ pc' = "done"
    /\ UNCHANGED <<call, content, args, extracted, seen, unit_rest>>

MaxRecords == 3

Name_smith == <<"S","m","i","t","h">>

Name_jo == <<"J","o">>

Name_md == <<"M","D">>

\* records as the pages of a run may have accumulated them: a title and credential variant,
\* a last name alone, a two-letter name and a name that normalizes to the empty string
UnitMakers ==
    { DM(Name_dr_jane_smith_md, Title_owner), DM(Name_jane_smith, Title_ceo),
      DM(Name_john_doe, Title_owner), DM(Name_smith, Title_ceo), DM(Name_jo, Title_owner),
      DM(Name_md, Title_ceo) }

\* lines 171-174 on a given all_decision_makers
UniqueMakersCalls ==
    { [entry |-> "unique_makers", all_decision_makers |-> l] : l \in SeqsUpTo(UnitMakers, MaxRecords) }

UniqueMakersCall ==
    /\ pc = "call"
    /\ call.entry = "unique_makers"
    /\ results' = <<UniqueMakers(call.all_decision_makers, <<>>)>>
    /\ pc' = "done"
    /\ UNCHANGED <<call, content, args, extracted, seen, unit_rest>>

\* one run state of scrape_decision_makers and the _expand_frontier calls made on it, in order
ExpandFrontierCalls ==
    { [entry |-> "_expand_frontier", urls |-> <<Str_example_root>>, max_pages |-> p,
       batches |-> bs] :
        p \in 1..MaxPagesBound, bs \in SeqsUpTo(FrontierBatches, 2) \ {<<>>} }

\* lines 98-101: the deduplicator has seen the root, which is the frontier
RunState ==
    IF results = <<>>
    THEN [seen |-> mark_seen({}, url), frontier |-> <<url>>, total_queued |-> 1]
    ELSE [seen |-> seen, frontier |-> frontier, total_queued |-> total_queued]

\* lines 103-115 on internal_links in the run state st
ExpandFrontierFrom(internal_links, st) ==
    AdmitLinks(filter_internal_links(internal_links, get_base_domain(url), url),
               [seen |-> st.seen, frontier |-> st.frontier,
                total_queued |-> st.total_queued, added |-> 0, dups |-> {}])

\* the next _expand_frontier call: its link list and the run state before and after it are
\* recorded in results
ExpandFrontierCall ==
    /\ pc = "call"
    /\ call.entry = "_expand_frontier"
    /\ seen' = ExpandFrontierFrom(call.batches[Len(results) + 1], RunState).seen
    /\ frontier' = ExpandFrontierFrom(call.batches[Len(results) + 1], RunState).frontier
    /\ total_queued' = ExpandFrontierFrom(call.batches[Len(results) + 1], RunState).total_queued
    /\ results' = Append(results, [internal_links |-> call.batches[Len(results) + 1],
                                   before |-> RunState,
                                   after |-> [seen |-> seen', frontier |-> frontier',
                                              total_queued |-> total_queued']])
    /\ pc' = IF Len(results) + 1 = Len(call.batches) THEN "done" ELSE "call"
    /\ UNCHANGED <<call, content, args, extracted, site, exc, max_workers, semaphore, crawl_manager,
                   crawler, close_calls, all_decision_makers, errors, pages_crawled,
                   pages_skipped, wave, tasks, raised, queued, queued_wave, dup_rejected,
                   wave_no, fetch_failed, task_raised, fetch_calls, site_log>>

UnitInit ==
    /\ call \in NormalizeCalls \cup DedupCalls \cup WorkersCalls \cup UniqueMakersCalls
               \cup ExpandFrontierCalls
    /\ LibraryCall
    /\ Idle

UnitNext ==
    \/ NormalizeCall
    \/ IsNewCall
    \/ WorkersCall
    \/ UniqueMakersCall
    \/ ExpandFrontierCall

UnitSpec == UnitInit /\ [][UnitNext]_vars

-----------------------------------------------------------------------------
(* Properties                                                              *)

InFetch == Cardinality({i \in 1..Len(tasks) : tasks[i] = "fetching"})

Unresolved == {i \in 1..Len(tasks) : tasks[i] # "done"}

\* some action of Next is enabled: outside a wave the flow always has its next step; in a
\* wave a task can take a permit, a fetch can end, or gather can return
CanStep ==
    \/ pc \in {"call", "links", "drain", "finally"}
    \/ pc = "gather" /\ Unresolved = {}
    \/ \E i \in 1..Len(tasks) : CanAcquire(i) \/ InCrawl(i)

\* the worker cap of the run: the caller's max_workers when given, else the monitor's count
WorkerCap == IF call.max_workers # None THEN The(call.max_workers) ELSE max_workers

\* C1: total_queued never exceeds max_pages, for every max_pages the entry point accepts
C1_FrontierCap == total_queued <= max_pages

\* C2: any two URLs ever put on the frontier in a run have different normalized forms
C2_NeverEnqueuedTwice ==
    \A i, j \in 1..Len(queued) :
        i # j => NormalizedUrl[queued[i]] # NormalizedUrl[queued[j]]

\* a link that differs from a queued URL as a string and normalizes like it was turned away
C2_Witness ==
    \E d \in dup_rejected : \E k \in 1..Len(queued) :
        d # queued[k] /\ NormalizedUrl[d] = NormalizedUrl[queued[k]]

\* C3: the page tasks inside crawl_and_extract never outnumber the worker cap
C3_WorkerCap == semaphore # None => InFetch <= WorkerCap

\* the cap is reached while another task of the wave waits for a permit
C3_Witness ==
    /\ pc = "gather"
    /\ WorkerCap >= 1
    /\ InFetch = WorkerCap
    /\ \E i \in 1..Len(tasks) : tasks[i] = "created"

\* C4: a wave is collected only when every task of the wave before it has resolved, and
\* a URL processed in a wave was put on the frontier during an earlier wave (or before any)
C4_WavesSequential ==
    /\ pc # "gather" => Unresolved = {}
    /\ \A i \in 1..Len(wave) : \A k \in 1..Len(queued) :
          queued[k] = wave[i] => queued_wave[k] < wave_no

\* a URL put on the frontier while wave 1 ran is being fetched in wave 2
C4_Witness ==
    /\ pc = "gather"
    /\ wave_no = 2
    /\ \E i \in 1..Len(wave) : \E k \in 1..Len(queued) :
          queued[k] = wave[i] /\ queued_wave[k] = 1 /\ tasks[i] = "fetching"

\* the run of the site has ended by returning a result, every task of its last wave resolved
RunReturned ==
    /\ Unresolved = {}
    /\ frontier = <<>>
    /\ site_log # <<>>
    /\ site_log[Len(site_log)].exc = None

\* C5: once a page task of a run has failed, no exception is in flight out of the wave loop,
\* the run can always take its next step (its other tasks and later waves go on, no action
\* leading back), and when it has ended it has returned a result
C5_FailureDoesNotAbort ==
    task_raised # {} =>
        /\ exc = None
        /\ raised = None
        /\ pc = "done" \/ CanStep
        /\ pc \in {"call", "done"} => RunReturned

\* a task has failed while other tasks of its wave are still unresolved
C5_Witness ==
    /\ pc = "gather"
    /\ task_raised # {}
    /\ Cardinality(Unresolved) >= 2

\* the wave URLs whose task has resolved
Resolved == Len(queued) - Len(frontier) - Cardinality(Unresolved)

\* C6: a page whose fetch failed has one error string keyed by its URL, is counted in
\* pages_skipped and is not counted in pages_crawled
C6_FetchFailureIsSkipped ==
    /\ \A u \in fetch_failed :
          Cardinality({k \in 1..Len(errors) : StartsWith(errors[k], u \o <<":", " ">>)}) = 1
    /\ pages_skipped >= Cardinality(fetch_failed)
    /\ pages_crawled + Cardinality(fetch_failed) <= Resolved

\* a run has ended: the flow is between two sites or at the end of the call
RunEnded == pc \in {"call", "done"} /\ site_log # <<>>

LastRun == site_log[Len(site_log)]

C8_OneResultPerSite ==
    call.entry = "scrape_multiple" =>
        /\ raised = None
        /\ Len(results) = Len(site_log)
        /\ pc = "done" => Len(results) = Len(call.urls)
        /\ \A k \in 1..Len(results) :
              /\ results[k].url = call.urls[k]
              /\ site_log[k].exc # None =>
                    results[k] = ScrapeResult(call.urls[k], <<>>, 0, 0, <<The(site_log[k].exc)>>)
              /\ site_log[k].exc = None => results[k] = The(site_log[k].returned)

\* the first of two sites raised and the second was scraped in full
C8_Witness ==
    /\ call.entry = "scrape_multiple"
    /\ pc = "done"
    /\ Len(results) = 2
    /\ site_log[1].exc # None
    /\ site_log[2].exc = None
    /\ results[2].pages_crawled >= 2

C10_RunTerminates == pc = "done" \/ CanStep

\* the number of crawl_and_extract calls made for URL u in this run
FetchCount(u) == CopiesIn(u, fetch_calls)

\* a URL is admitted after the seeding only under the cap, and is fetched at most once
AdmittedUnderCap ==
    /\ Len(queued) = total_queued
    /\ \A k \in 2..Len(queued) : k <= max_pages
    /\ \A u \in BagToSet(fetch_calls) :
          FetchCount(u) = 1 /\ \E k \in 1..Len(queued) : queued[k] = u

\* C11 as claimed: once total_queued has reached max_pages nothing more is admitted, and
\* when the run has ended, however it ended, every admitted URL has been fetched exactly once
C11_AllFetchedAtEveryEnd ==
    /\ AdmittedUnderCap
    /\ RunEnded => \A k \in 1..Len(queued) : FetchCount(queued[k]) = 1

\* C11 as amended: once total_queued has reached max_pages nothing more is admitted, and
\* when the run has returned its result every admitted URL has been fetched exactly once
C11_AllFetchedAtReturn ==
    /\ AdmittedUnderCap
    /\ (RunEnded /\ LastRun.exc = None) =>
          \A k \in 1..Len(queued) : FetchCount(queued[k]) = 1

\* a run returned after the cap was reached while a wave was running
C11_Witness ==
    /\ RunEnded
    /\ LastRun.exc = None
    /\ max_pages >= 3
    /\ total_queued = max_pages
    /\ queued_wave[Len(queued)] >= 1
    /\ \A k \in 1..Len(queued) : FetchCount(queued[k]) = 1

\* the lists filter_internal_links returns for the link lists and roots of the model
FilterOutputs ==
    { Prioritized[r][b].links : r \in Roots, b \in LinkBatches }

\* no URL of the skip tier is in a list filter_internal_links returns
NoSkipUrlReturned ==
    \A out \in FilterOutputs : \A i \in 1..Len(out) : UrlScore[out[i]] # -1

\* C12 as claimed: no URL that scores -1 is returned by filter_internal_links, put on the
\* frontier or processed in a wave
C12_NoSkipUrlAnywhere ==
    /\ NoSkipUrlReturned
    /\ \A k \in 1..Len(queued) : UrlScore[queued[k]] # -1
    /\ \A i \in 1..Len(wave) : UrlScore[wave[i]] # -1

\* C12 as amended: no URL that scores -1 is returned by filter_internal_links, and none but
\* the root, which is seeded without being scored, is put on the frontier or processed
C12_NoSkipUrlButRoot ==
    /\ NoSkipUrlReturned
    /\ \A k \in 1..Len(queued) : queued[k] # url => UrlScore[queued[k]] # -1
    /\ \A i \in 1..Len(wave) : wave[i] # url => UrlScore[wave[i]] # -1

\* the link list with /blog/post-1 and /contact was filtered under the cap: /contact was
\* admitted and the blog post was not
C12_Witness ==
    /\ pc \notin {"call", "done"}
    /\ total_queued < max_pages
    /\ UrlScore[urljoin(url, Href_blog_post)] = -1
    /\ \E k \in 1..Len(queued) : queued[k] = urljoin(url, Href_contact)
    /\ \A k \in 1..Len(queued) : queued[k] # urljoin(url, Href_blog_post)

\* C13: every URL filter_internal_links returns, and every URL on the frontier, has the
\* host of the site being scraped
C13_AdmittedOnDomain ==
    /\ \A r \in Roots, b \in LinkBatches :
          \A i \in 1..Len(Prioritized[r][b].links) :
              UrlHost[Prioritized[r][b].links[i]] = UrlHost[r]
    /\ \A k \in 1..Len(queued) : UrlHost[queued[k]] = UrlHost[url]

\* the normalized form of the k-th URL passed to is_new
PassedNorm(k) == NormalizedUrl[call.urls[k]]

\* C14: after any sequence of is_new calls, count is the number of distinct normalized URLs
\* passed, the seen-set holds exactly their normalized forms (nothing is lost), and a call
\* returned true exactly when no earlier call passed the same normalized form
C14_DedupMonotone ==
    call.entry = "URLDeduplicator.is_new" =>
        /\ count(seen) = Cardinality({ PassedNorm(k) : k \in 1..Len(results) })
        /\ seen = { PassedNorm(k) : k \in 1..Len(results) }
        /\ \A k \in 1..Len(results) :
              results[k] = (\A j \in 1..(k - 1) : PassedNorm(j) # PassedNorm(k))

\* three calls, the second with another spelling of the first URL: true, false, true
C14_Witness ==
    /\ call.entry = "URLDeduplicator.is_new"
    /\ results = <<TRUE, FALSE, TRUE>>
    /\ call.urls[1] # call.urls[2]
    /\ count(seen) = 2

\* C15: normalize_url applied to its own result returns that result
C15_NormalizeIdempotent ==
    (call.entry = "normalize_url" /\ pc = "done") => results[2] = results[1]

\* the value calculate_optimal_workers returned
Workers == results[1]

\* a calculate_optimal_workers call has returned
WorkersReturned == call.entry = "calculate_optimal_workers" /\ pc = "done"

\* C16 as claimed: for every configuration and every sample the returned value lies in
\* [min_workers, max_workers]
C16_WorkersInRange ==
    WorkersReturned =>
        call.self.min_workers <= Workers /\ Workers <= call.self.max_workers

\* C16 as amended: the returned value is at least min_workers and at most the larger of
\* min_workers and max_workers, hence in [min_workers, max_workers] when min <= max
C16_WorkersAtLeastMin ==
    WorkersReturned =>
        /\ call.self.min_workers <= Workers
        /\ Workers <= call.self.max_workers \/ Workers = call.self.min_workers

\* the memory budget decided: the value lies strictly between min_workers and max_workers
C16_Witness ==
    /\ WorkersReturned
    /\ call.self.min_workers < Workers
    /\ Workers < call.self.max_workers
    /\ Workers = (call.mem.available_mb - call.self.min_free_memory_mb) \div 200

\* the least element of a non-empty set of integers
Least(S) == CHOOSE m \in S : \A x \in S : m <= x

\* the cpu_count the function works with: os.cpu_count() or 2
CpuCountOr2 == IF call.cpu_count = 0 THEN 2 ELSE call.cpu_count

\* the stated policy of calculate_optimal_workers
WorkersPolicy ==
    IF call.mem.percent >= call.self.max_memory_percent
       \/ call.mem.available_mb < call.self.min_free_memory_mb
    THEN call.self.min_workers
    ELSE LET budget == Least({ (call.mem.available_mb - call.self.min_free_memory_mb) \div 200,
                               2 * CpuCountOr2, call.self.max_workers })
         IN  IF budget >= call.self.min_workers THEN budget ELSE call.self.min_workers

\* C17: calculate_optimal_workers returns a value for every sample, and it is the value of
\* the stated policy
C17_WorkersPolicy ==
    /\ (call.entry = "calculate_optimal_workers" /\ pc = "call") => ENABLED WorkersCall
    /\ WorkersReturned => Workers = WorkersPolicy

\* the CPU budget decided, below the memory budget and max_workers
C17_Witness ==
    /\ WorkersReturned
    /\ call.mem.percent < call.self.max_memory_percent
    /\ Workers = 2 * CpuCountOr2
    /\ Workers < (call.mem.available_mb - call.self.min_free_memory_mb) \div 200
    /\ Workers < call.self.max_workers
    /\ Workers > call.self.min_workers

\* _normalize_name, evaluated once for each name of the unit calls
NormalizedName == [r \in UnitMakers |-> _normalize_name(r.name)]

\* the match rule: equal normalized names, or both of length >= 3 and one inside the other
SamePerson(a, b) ==
    \/ NormalizedName[a] = NormalizedName[b]
    \/ /\ Len(NormalizedName[a]) >= 3
       /\ Len(NormalizedName[b]) >= 3
       /\ (StrIn(NormalizedName[a], NormalizedName[b]) \/ StrIn(NormalizedName[b], NormalizedName[a]))

\* the positions among the first n records of all that first-seen-wins keeps
RECURSIVE KeptPositions(_, _)
KeptPositions(all, n) ==
    IF n = 0 THEN {}
    ELSE LET kept == KeptPositions(all, n - 1)
         IN  IF NormalizedName[all[n]] # <<>> /\ \A j \in kept : ~SamePerson(all[j], all[n])
             THEN kept \cup {n}
             ELSE kept

\* the records of all at the positions K, in the order of all, from position i on
RECURSIVE RecordsAt(_, _, _)
RecordsAt(all, K, i) ==
    IF i > Len(all) THEN <<>>
    ELSE (IF i \in K THEN <<all[i]>> ELSE <<>>) \o RecordsAt(all, K, i + 1)

ProbeAdmitted == SelectSeq(queued, LAMBDA u : \E k \in 1..Len(queued) : queued[k] = u /\ queued_wave[k] = 0)

\* C19: no crawl_and_extract call precedes the end of the links-only probe, the probe
\* extracts nothing, the first wave is the root followed by the links the probe admitted,
\* and the entity dedup pass runs (and the result is built) only with every wave resolved
C19_ProbeThenWaves ==
    /\ (pc = "links" \/ (pc = "drain" /\ wave_no = 0)) =>
          /\ fetch_calls = EmptyBag
          /\ all_decision_makers = <<>>
          /\ pages_crawled = 0
    /\ wave_no = 1 => wave = ProbeAdmitted /\ wave[1] = url
    /\ (pc = "finally" /\ exc = None) => Unresolved = {} /\ frontier = <<>>
    /\ (RunEnded /\ LastRun.exc = None) =>
          /\ Unresolved = {} /\ frontier = <<>>
          /\ The(LastRun.returned).decision_makers = UniqueMakers(all_decision_makers, <<>>)

\* the first wave runs with the root and two links of the probe, one of them being fetched
C19_Witness ==
    /\ pc = "gather"
    /\ wave_no = 1
    /\ Len(wave) >= 3
    /\ wave = ProbeAdmitted
    /\ \E i \in 2..Len(wave) : tasks[i] = "fetching"

\* the shared scheduling state
shared == <<frontier, seen, total_queued>>

\* a step of page task i: it takes its permit, or its crawl_and_extract call ends
TaskStep(i) ==
    /\ pc = "gather"
    /\ i \in 1..Len(tasks)
    /\ tasks'[i] # tasks[i]

\* C20 as claimed: no step of a page task changes the frontier, the seen-set or total_queued
C20_TasksNeverMutate ==
    [][(\E i \in 1..Len(tasks) : TaskStep(i)) => UNCHANGED shared]_vars

\* C20 as amended: a step that changes the frontier, the seen-set or total_queued is a step
\* of the orchestrating flow or the step of exactly one page task whose crawl_and_extract
\* call ended, and it leaves total_queued and the seen-set in step with the URLs enqueued
C20_OneMutatorPerStep ==
    [][shared' # shared =>
          /\ \/ pc # "gather"
             \/ \E i \in 1..Len(tasks) :
                   /\ tasks[i] = "fetching" /\ tasks'[i] = "done"
                   /\ \A j \in 1..Len(tasks) : j # i => tasks'[j] = tasks[j]
          /\ total_queued' = Len(queued')
          /\ seen' = { NormalizedUrl[queued'[k]] : k \in 1..Len(queued') }]_vars

\* a page task has enqueued a URL itself: it was put on the frontier while a wave ran
C20_Witness ==
    /\ pc = "gather"
    /\ \E k \in 1..Len(queued) : queued_wave[k] = wave_no
    /\ frontier # <<>>
    /\ Unresolved # {}

Url_about_us == urljoin(Str_example_root, Href_about_us)

Url_blog_post == urljoin(Str_example_root, Href_blog_post)

Url_contact == urljoin(Str_example_root, Href_contact)

\* the crawl_and_extract call for the root has returned the homepage
HomepageExtracted ==
    /\ \/ wave_no >= 2
       \/ wave_no = 1 /\ (pc # "gather" \/ tasks[1] = "done")
    /\ url \notin fetch_failed \cup task_raised

\* C21: on https://example.com/ whose homepage links to /about-us, /blog/post-1 and /contact,
\* with max_pages=5, /blog/post-1 is never put on the frontier; the first URLs put on it after
\* the root are /about-us and then /contact, by the link-discovery pass or, when that pass got
\* no links, by the fetch of the root; and a wave holds /about-us right before /contact
C21_ScenarioOrder ==
    /\ \A k \in 1..Len(queued) : queued[k] # Url_blog_post
    /\ \A i \in 1..Len(wave) : wave[i] # Url_blog_post
    /\ Len(queued) >= 2 =>
          /\ Len(queued) >= 3
          /\ queued[2] = Url_about_us
          /\ queued[3] = Url_contact
          /\ queued_wave[2] = queued_wave[3]
    /\ (pc = "drain" /\ wave_no = 0) => queued \in {<<url>>, <<url, Url_about_us, Url_contact>>}
    /\ HomepageExtracted => Len(queued) >= 3
    /\ \A i \in 1..Len(wave) : wave[i] = Url_contact => (i > 1 /\ wave[i - 1] = Url_about_us)

\* the link-discovery pass put /about-us and /contact on the frontier, and the first wave has
\* taken the root, /about-us and /contact in this order and fetched /about-us
C21_Witness ==
    /\ pc = "gather"
    /\ wave = <<Str_example_root, Url_about_us, Url_contact>>
    /\ queued_wave[2] = 0
    /\ tasks[2] = "done"
    /\ tasks[3] = "created"
    /\ max_pages = 5

\* the document has the shape of a response: a list of chunks, or an object whose
\* decision_makers, when present, is a list
ShapeOk(raw) ==
    \/ raw.type = "array"
    \/ raw.type = "object" /\ Get(raw, "decision_makers", JArray(<<>>)).type = "array"

\* the extraction output cannot be parsed or validated: it is no JSON, it has not the shape
\* of a response, or it has entries and none of them is a DecisionMaker
Malformed(raw) ==
    \/ ~ShapeOk(raw)
    \/ /\ DataList(raw).items # <<>>
       /\ \A k \in 1..Len(DataList(raw).items) : ValidationFails(DataList(raw).items[k])

\* the step is the end of a crawl_and_extract call whose extraction output is malformed
MalformedStep == extracted' # extracted /\ Malformed(The(extracted').raw)

\* the links of the page are offered to the frontier: _expand_frontier runs on them when
\* there are any and the budget is not exhausted
LinksOffered(links) ==
    IF links # <<>> /\ total_queued < max_pages
    THEN <<seen', frontier', total_queued'>> =
            <<_expand_frontier(links, [seen |-> seen, frontier |-> frontier,
                                       total_queued |-> total_queued]).seen,
              _expand_frontier(links, [seen |-> seen, frontier |-> frontier,
                                       total_queued |-> total_queued]).frontier,
              _expand_frontier(links, [seen |-> seen, frontier |-> frontier,
                                       total_queued |-> total_queued]).total_queued>>
    ELSE UNCHANGED <<seen, frontier, total_queued>>

\* C22: a page whose extraction output is malformed adds no record and no error entry, is
\* counted in pages_crawled and not in pages_skipped, and its links (a list that
\* filter_internal_links accepts) are offered to the frontier
C22_MalformedYieldsNothing ==
    [][(MalformedStep /\ ~Prioritized[url][The(extracted').links].raises) =>
          /\ all_decision_makers' = all_decision_makers
          /\ errors' = errors
          /\ pages_crawled' = pages_crawled + 1
          /\ pages_skipped' = pages_skipped
          /\ LinksOffered(The(extracted').links)]_vars

\* C23: every resolved page task has incremented exactly one of pages_crawled and
\* pages_skipped, errors holds one entry per skipped page, and when the run has returned
\* pages_crawled + pages_skipped equals total_queued
C23_OneCounterPerPage ==
    /\ pages_crawled + pages_skipped = Resolved
    /\ Len(errors) = pages_skipped
    /\ (RunEnded /\ LastRun.exc = None) => pages_crawled + pages_skipped = total_queued

\* C24: the seen-set has total_queued elements, and they are the normalized forms of the
\* URLs admitted to the frontier: nothing else, a link turned away by the budget included,
\* is recorded as seen
C24_SeenIsQueued ==
    /\ Cardinality(seen) = total_queued
    /\ total_queued = Len(queued)
    /\ seen = { NormalizedUrl[queued[k]] : k \in 1..Len(queued) }

\* the link-discovery pass admitted /about-us with the last unit of the budget; /contact,
\* which stands after it in the same link list, was turned away and is not in the seen-set
C24_Witness ==
    /\ pc = "drain"
    /\ wave_no = 0
    /\ total_queued = max_pages
    /\ queued = <<url, urljoin(url, Href_about_us)>>
    /\ NormalizedUrl[urljoin(url, Href_contact)] \notin seen

\* the decision_makers list of the result built from unique_makers (line 187)
Returned == results[1]

\* C25: in the decision_makers list of a returned result no two records match under the
\* dedup match rule, and no record has an empty normalized name
C25_ResultPairwiseDistinct ==
    (call.entry = "unique_makers" /\ pc = "done") =>
        /\ \A i, j \in 1..Len(Returned) : i # j => ~SamePerson(Returned[i], Returned[j])
        /\ \A i \in 1..Len(Returned) : NormalizedName[Returned[i]] # <<>>

\* two records were returned; the one left out has an empty normalized name or matches a
\* returned record without having the same normalized name
C25_Witness ==
    /\ call.entry = "unique_makers"
    /\ pc = "done"
    /\ Len(call.all_decision_makers) = 3
    /\ Len(Returned) = 2
    /\ \E k \in 1..3 :
          /\ \A i \in 1..2 : Returned[i] # call.all_decision_makers[k]
          /\ \/ NormalizedName[call.all_decision_makers[k]] = <<>>
             \/ \E i \in 1..2 :
                   /\ SamePerson(Returned[i], call.all_decision_makers[k])
                   /\ NormalizedName[Returned[i]] # NormalizedName[call.all_decision_makers[k]]

\* lines 140-146 for the pages of a wave, one after the other in the order of the wave;
\* st = [seen, frontier, total_queued], all is all_decision_makers
RECURSIVE PagesInOrder(_, _, _)
PagesInOrder(pages, st, all) ==
    IF pages = <<>> THEN [st |-> st, all |-> all]
    ELSE PagesInOrder(Tail(pages),
                      IF content[Head(pages)].links # <<>> /\ st.total_queued < max_pages
                      THEN _expand_frontier(content[Head(pages)].links, st)
                      ELSE st,
                      all \o content[Head(pages)].makers)

\* lines 158-167 with every wave processed in the order of the wave
RECURSIVE WavesInOrder(_, _, _)
WavesInOrder(st, all, crawled) ==
    IF st.frontier = <<>> THEN [all |-> all, crawled |-> crawled]
    ELSE WavesInOrder(PagesInOrder(st.frontier, [st EXCEPT !.frontier = <<>>], all).st,
                      PagesInOrder(st.frontier, [st EXCEPT !.frontier = <<>>], all).all,
                      crawled \cup { st.frontier[k] : k \in 1..Len(st.frontier) })

\* the run in which the page tasks of each wave complete in the order of the wave: the URLs
\* it crawls and the records it accumulates
RunInOrder ==
    WavesInOrder(_expand_frontier(content[url].links,
                                  [seen |-> mark_seen({}, url), frontier |-> <<url>>,
                                   total_queued |-> 1]),
                 <<>>, {})

\* C26: on a site whose pages are fixed and whose fetches all succeed, every run returns
\* the decision_makers list, and crawls the set of URLs, of the run whose page tasks
\* complete in the order of their wave
C26_ResultIndependentOfOrder ==
    (RunEnded /\ LastRun.exc = None) =>
        /\ BagToSet(fetch_calls) = RunInOrder.crawled
        /\ The(LastRun.returned).decision_makers = UniqueMakers(RunInOrder.all, <<>>)

\* the records of the _expand_frontier calls made so far
ExpandCalls ==
    IF call.entry = "_expand_frontier" THEN { results[k] : k \in 1..Len(results) } ELSE {}

\* the candidates of a call's link list: its on-domain links outside the skip tier, scored
CandidatesOf(r) ==
    { Candidates(r.internal_links, get_base_domain(url), url)[k] :
        k \in 1..Len(Candidates(r.internal_links, get_base_domain(url), url)) }

\* the URLs the call appended to the frontier, in the order of appending
AdmittedBy(r) == SubSeq(r.after.frontier, Len(r.before.frontier) + 1, Len(r.after.frontier))

\* the candidate was new to the deduplicator and the call did not reach it: after the call
\* its normal form is still unseen
BudgetRejected(r, c) == NormalizedUrl[c.url] \notin r.after.seen

\* C27: within one link list handed to _expand_frontier, links are admitted in descending
\* score order, ties in lexicographic URL order: the admitted URLs are appended in rank
\* order, and when a not-yet-seen candidate is left out because the budget is spent, no
\* candidate of the same list that ranks below it is admitted
C27_AdmittedInRankOrder ==
    \A r \in ExpandCalls :
        /\ \A i, j \in 1..Len(AdmittedBy(r)) :
              i < j => CandidateLess([score |-> UrlScore[AdmittedBy(r)[i]], url |-> AdmittedBy(r)[i]],
                                     [score |-> UrlScore[AdmittedBy(r)[j]], url |-> AdmittedBy(r)[j]])
        /\ \A a, b \in CandidatesOf(r) :
              (CandidateLess(a, b) /\ BudgetRejected(r, a)) =>
                  \A k \in 1..Len(AdmittedBy(r)) : AdmittedBy(r)[k] # b.url

\* a call whose link list is not in rank order admitted its best candidate, a tie on the
\* score among the candidates, and left a new candidate out for lack of budget
C27_Witness ==
    \E r \in ExpandCalls :
        /\ r.internal_links = <<Href_contact, Href_blog_post, Href_team, Href_about_us>>
        /\ AdmittedBy(r) = <<urljoin(url, Href_about_us)>>
        /\ \E a \in CandidatesOf(r) : a.url = urljoin(url, Href_team) /\ BudgetRejected(r, a)
        /\ \E a \in CandidatesOf(r) : a.url = urljoin(url, Href_contact) /\ BudgetRejected(r, a)

\* the value of --max-workers on the command line, None when the option is absent
WorkersOption == IF args = None THEN None ELSE The(args).max_workers

\* C28: when the command line carries --max-workers N, each site's run uses N as its worker
\* cap: the semaphore of the run is made with N permits and at most N pages are inside
\* fetch and extraction at once
C28_CliWorkerOverride ==
    (WorkersOption # None /\ semaphore # None) =>
        /\ max_workers = The(WorkersOption)
        /\ InFetch <= The(WorkersOption)

====
